---- MODULE Spec2Model ----
(***************************************************************************)
(* pipinfo: the dependency closure engine (get_packages_required_by) and   *)
(* the two metadata parsers of src/pipinfo/library.py.                     *)
(*                                                                         *)
(* Texts are sequences of one-character strings, so that lower(), the      *)
(* regular-expression substitutions and split() are computed character by  *)
(* character as the code computes them.                                    *)
(***************************************************************************)
EXTENDS Integers, Sequences, FiniteSets, TLC

VARIABLES
    pc,            \* position of the running function
    packages,      \* get_packages_required_by: the packages argument
    required_by,   \* get_packages_required_by: required_by (key -> list of names)
    extras,        \* get_packages_required_by: extras, the pending dict in insertion order
    key,           \* get_packages_required_by: key, the pending target being drained
    pi,            \* index of the "for package in packages" loops
    ei,            \* index of the "for extra in value" loop
    di,            \* index of the "for dependency in ..." loops
    drained,       \* history: the (key, value) items deleted from extras so far
    visited,       \* history: the (extras, required_by) pairs "while extras" has tested
    metadata_lines,   \* get_info_from_site_packages_dir: lines of METADATA or PKG-INFO
    requires_file,    \* get_info_from_site_packages_dir: a requires.txt is there to read
    requires_lines,   \* process_requires_file: lines of requires.txt
    li,               \* index of "for line in lines" of the metadata scan
    ri,               \* index of "for line in lines" of process_requires_file
    name,             \* get_info_from_site_packages_dir: name
    version,          \* get_info_from_site_packages_dir: version
    summary,          \* get_info_from_site_packages_dir: summary
    requires,         \* the requires dictionary of both parsers
    package_extras,   \* the extras dictionary of both parsers
    extra,            \* process_requires_file: extra
    extra_conditions, \* process_requires_file: extra_conditions
    error,            \* the exception that left the parser, "" when none
    items,            \* get_info_from_site_packages_dir: the entries os.scandir yields
    ii,               \* index of "for item in items"
    info,             \* get_info_from_site_packages_dir: info
    deja_vu,          \* get_info_from_site_packages_dir: deja_vu (name -> versions)
    yielded,          \* history: what each scanned package directory yielded
    req_line,         \* one requirement expression, as written after "Requires-Dist: "
    req_dependency,   \* dependency, as the metadata scan and then the closure leave it
    req_conditions,   \* conditions, as the metadata scan leaves it
    req_extras,       \* extra.split(','), the extras the closure finds in the bracket
    parameters,       \* main.py: parameters, the options, display flags and selections
    oi,               \* the number of options "for option, _ in options" has handled
    given,            \* history: for each set of selections, the one an option set last
    arguments,        \* main: arguments, the directories left on the command line
    main_packages,    \* main: packages
    latest_versions,  \* main: latest_versions
    vulnerabilities   \* main: vulnerabilities

closureVars == <<packages, required_by, extras, key, pi, ei, di, drained, visited>>
parseVars == <<metadata_lines, requires_file, requires_lines, li, ri, name, version, summary,
               requires, package_extras, extra, extra_conditions, error>>
scanVars == <<items, ii, info, deja_vu, yielded>>
lineVars == <<req_line, req_dependency, req_conditions, req_extras>>
mainVars == <<parameters, oi, given, arguments, main_packages, latest_versions, vulnerabilities>>
vars == <<pc, closureVars, parseVars, scanVars, lineVars, mainVars>>

(***************************************************************************)
(* Bounds                                                                  *)
(***************************************************************************)
MaxPackages == 3
MaxMetadataLines == 2
MaxRequiresLines == 3

(***************************************************************************)
(* Texts                                                                   *)
(***************************************************************************)
UpperCase == <<"A", "B", "C", "D", "E", "F", "G", "H", "I", "J", "K", "L", "M",
               "N", "O", "P", "Q", "R", "S", "T", "U", "V", "W", "X", "Y", "Z">>
LowerCase == <<"a", "b", "c", "d", "e", "f", "g", "h", "i", "j", "k", "l", "m",
               "n", "o", "p", "q", "r", "s", "t", "u", "v", "w", "x", "y", "z">>

\* one character of str.lower()
LowerChar(c) ==
    IF \E i \in 1..Len(UpperCase) : UpperCase[i] = c
    THEN LowerCase[CHOOSE i \in 1..Len(UpperCase) : UpperCase[i] = c]
    ELSE c

\* a mutant of Lower: names are compared as declared
LowerIdentity(s) == s

\* str.lower()
Lower(s) == [i \in 1..Len(s) |-> LowerChar(s[i])]

\* "c in s" for a character c
HasChar(s, c) == \E i \in 1..Len(s) : s[i] = c

\* "x in list"
InList(list, x) == \E i \in 1..Len(list) : list[i] = x

FirstIndex(s, c) == CHOOSE i \in 1..Len(s) : s[i] = c /\ \A j \in 1..(i - 1) : s[j] # c
LastIndex(s, c) == CHOOSE i \in 1..Len(s) : s[i] = c /\ \A j \in (i + 1)..Len(s) : s[j] # c

\* re.sub(c + ".*", "", s): the text before the first c
CutFromFirst(s, c) == IF HasChar(s, c) THEN SubSeq(s, 1, FirstIndex(s, c) - 1) ELSE s

\* re.sub(".*" + c, "", s): the text after the last c (".*" is greedy)
CutThroughLast(s, c) == IF HasChar(s, c) THEN SubSeq(s, LastIndex(s, c) + 1, Len(s)) ELSE s

\* s.split(c) for a one-character separator
RECURSIVE Split(_, _)
Split(s, c) ==
    IF HasChar(s, c)
    THEN <<SubSeq(s, 1, FirstIndex(s, c) - 1)>>
         \o Split(SubSeq(s, FirstIndex(s, c) + 1, Len(s)), c)
    ELSE <<s>>

(***************************************************************************)
(* get_packages_required_by: the pure parts                                *)
(***************************************************************************)
\* extra = re.sub(r".*\[", "", dependency); extra = re.sub(r"].*", "", extra)
ExtraOf(dependency) == CutFromFirst(CutThroughLast(dependency, "["), "]")

\* a mutant of DependencyName: the bracket suffix stays in the key
DependencyNameKeepsBracket(dependency) == dependency

\* dependency = re.sub(r"\[.*", "", dependency)
DependencyName(dependency) == CutFromFirst(dependency, "[")

KeysOf(ex) == {ex[i].key : i \in 1..Len(ex)}
IndexOfKey(ex, k) == CHOOSE i \in 1..Len(ex) : ex[i].key = k
ValueOf(ex, k) == ex[IndexOfKey(ex, k)].value

\* a mutant of AddPart: the last request for a target replaces the earlier ones
AddPartOverwrite(ex, dependency, part) ==
    IF dependency \in KeysOf(ex)
    THEN [ex EXCEPT ![IndexOfKey(ex, dependency)].value = <<part>>]
    ELSE Append(ex, [key |-> dependency, value |-> <<part>>])

\* the body of "for part in extra.split(',')"
AddPart(ex, dependency, part) ==
    IF dependency \in KeysOf(ex)
    THEN IF InList(ValueOf(ex, dependency), part)
         THEN ex
         ELSE [ex EXCEPT ![IndexOfKey(ex, dependency)].value = Append(@, part)]
    ELSE Append(ex, [key |-> dependency, value |-> <<part>>])

\* for part in extra.split(','): ...
RECURSIVE AddParts(_, _, _)
AddParts(ex, dependency, parts) ==
    IF parts = <<>> THEN ex
    ELSE AddParts(AddPart(ex, dependency, Head(parts)), dependency, Tail(parts))

\* a mutant of Record: the edge is recorded the wrong way round
RecordReversed(rb, dependency, requirer) ==
    IF requirer \in DOMAIN rb
    THEN IF InList(rb[requirer], dependency)
         THEN rb
         ELSE [rb EXCEPT ![requirer] = Append(@, dependency)]
    ELSE rb @@ (requirer :> <<dependency>>)

\* a mutant of Record: the name is appended without the membership test
RecordAlways(rb, dependency, requirer) ==
    IF dependency \in DOMAIN rb
    THEN [rb EXCEPT ![dependency] = Append(@, requirer)]
    ELSE rb @@ (dependency :> <<requirer>>)

\* if dependency in required_by: ... else: required_by[dependency] = [name]
Record(rb, dependency, requirer) ==
    IF dependency \in DOMAIN rb
    THEN IF InList(rb[dependency], requirer)
         THEN rb
         ELSE [rb EXCEPT ![dependency] = Append(@, requirer)]
    ELSE rb @@ (dependency :> <<requirer>>)

\* the pending dict after one (lowercased) dependency declaration
Enqueue(ex, dependency) ==
    IF HasChar(dependency, "[")
    THEN AddParts(ex, DependencyName(dependency), Split(ExtraOf(dependency), ","))
    ELSE ex

\* the key under which one (lowercased) dependency declaration is recorded
RecordKey(dependency) ==
    IF HasChar(dependency, "[") THEN DependencyName(dependency) ELSE dependency

\* a mutant of Lookup: the group key is compared in lowercase
LookupAnyCase(package, extra_name) == SelectSeq(package.extras, LAMBDA g : Lower(g.key) = extra_name)

\* the entries of the dict package['extras'] under the key extra (none or one)
Lookup(package, extra_name) == SelectSeq(package.extras, LAMBDA g : g.key = extra_name)

\* "extra in package['extras']"
HasGroup(package, extra_name) == Lookup(package, extra_name) # <<>>

\* package['extras'][extra], the dependency names of the group in declaration order
Group(package, extra_name) == Lookup(package, extra_name)[1].deps

\* del extras[key]
DelKey(ex, k) == SelectSeq(ex, LAMBDA item : item.key # k)

(***************************************************************************)
(* Package lists handed to get_packages_required_by                        *)
(***************************************************************************)
Pkg(n, r, e) == [name |-> n, requires |-> r, extras |-> e]
Grp(k, d) == [key |-> k, deps |-> d]

tApp == <<"A", "p", "p">>
tLib == <<"L", "i", "b">>
tlib == <<"l", "i", "b">>
tCee == <<"C", "e", "e">>
tzed == <<"z", "e", "d">>
tx == <<"x">>
ty == <<"y">>
tX == <<"X">>
tLibx == <<"L", "i", "b", "[", "x", "]">>
tlibx == <<"l", "i", "b", "[", "x", "]">>
tliby == <<"l", "i", "b", "[", "y", "]">>
tlibXy == <<"l", "i", "b", "[", "X", ",", "y", "]">>
tzedx == <<"z", "e", "d", "[", "x", "]">>
tAppy == <<"A", "p", "p", "[", "y", "]">>
tCeex == <<"C", "e", "e", "[", "x", "]">>

PackagePool ==
    { Pkg(tApp, <<tLib>>, <<Grp(ty, <<tzed>>)>>),
      Pkg(tApp, <<tLibx>>, <<Grp(ty, <<tlibx>>)>>),
      Pkg(tApp, <<tlibXy, tzedx>>, <<>>),
      Pkg(tApp, <<>>, <<Grp(ty, <<tCeex, tzed>>)>>),
      Pkg(tlib, <<tCee>>, <<Grp(tx, <<tCee>>)>>),
      Pkg(tlib, <<>>, <<Grp(tx, <<tAppy>>)>>),
      Pkg(tLib, <<tCee>>, <<Grp(tx, <<tliby>>), Grp(ty, <<tzed>>)>>),
      Pkg(tlib, <<tzed>>, <<Grp(tX, <<tCee>>)>>),
      Pkg(tCee, <<tLib, tlibx>>, <<>>) }

PackageLists == UNION {[1..n -> PackagePool] : n \in 0..MaxPackages}

(***************************************************************************)
(* get_packages_required_by: the steps                                     *)
(***************************************************************************)
InitClosure ==
    /\ packages \in PackageLists
    /\ pc = "direct"
    /\ required_by = <<>>
    /\ extras = <<>>
    /\ key = <<>>
    /\ pi = 1
    /\ ei = 1
    /\ di = 1
    /\ drained = {}
    /\ visited = {}
    \* the parsers are not running
    /\ metadata_lines = <<>>
    /\ requires_file = FALSE
    /\ requires_lines = <<>>
    /\ li = 1
    /\ ri = 1
    /\ name = <<>>
    /\ version = <<>>
    /\ summary = <<>>
    /\ requires = <<>>
    /\ package_extras = <<>>
    /\ extra = <<>>
    /\ extra_conditions = <<>>
    /\ error = ""
    \* no directory is being scanned
    /\ items = <<>>
    /\ ii = 1
    /\ info = <<>>
    /\ deja_vu = <<>>
    /\ yielded = <<>>
    \* no single requirement expression is being followed
    /\ req_line = <<>>
    /\ req_dependency = <<>>
    /\ req_conditions = <<>>
    /\ req_extras = <<>>
    \* main is not running
    /\ parameters = <<>>
    /\ oi = 0
    /\ given = <<>>
    /\ arguments = <<>>
    /\ main_packages = <<>>
    /\ latest_versions = <<>>
    /\ vulnerabilities = <<>>

\* one pass of the body of "for dependency in package['requires']"
DirectDependency ==
    /\ pc = "direct"
    /\ pi <= Len(packages)
    /\ di <= Len(packages[pi].requires)
    /\ LET requirer == Lower(packages[pi].name)
           dependency == Lower(packages[pi].requires[di])
       IN /\ extras' = Enqueue(extras, dependency)
          /\ required_by' = Record(required_by, RecordKey(dependency), requirer)
    /\ di' = di + 1
    /\ UNCHANGED <<pc, packages, key, pi, ei, drained, visited>>
    /\ UNCHANGED <<parseVars, scanVars, lineVars, mainVars>>

\* "for dependency in package['requires']" is exhausted: the next package
DirectNextPackage ==
    /\ pc = "direct"
    /\ pi <= Len(packages)
    /\ di > Len(packages[pi].requires)
    /\ pi' = pi + 1
    /\ di' = 1
    /\ UNCHANGED <<pc, packages, required_by, extras, key, ei, drained, visited>>
    /\ UNCHANGED <<parseVars, scanVars, lineVars, mainVars>>

\* "for package in packages" is exhausted: on to "while extras"
DirectEnd ==
    /\ pc = "direct"
    /\ pi > Len(packages)
    /\ pc' = "while"
    /\ UNCHANGED <<packages, required_by, extras, key, pi, ei, di, drained, visited>>
    /\ UNCHANGED <<parseVars, scanVars, lineVars, mainVars>>

\* "while extras" with extras empty: return required_by
Return ==
    /\ pc = "while"
    /\ extras = <<>>
    /\ pc' = "done"
    /\ UNCHANGED <<packages, required_by, extras, key, pi, ei, di, drained, visited>>
    /\ UNCHANGED <<parseVars, scanVars, lineVars, mainVars>>

\* key = list(extras.keys())[0]; value = extras[key]
PickKey ==
    /\ pc = "while"
    /\ extras # <<>>
    /\ key' = extras[1].key
    /\ pc' = "scan"
    /\ pi' = 1
    /\ ei' = 1
    /\ di' = 1
    /\ visited' = visited \cup {<<extras, required_by>>}
    /\ UNCHANGED <<packages, required_by, extras, drained>>
    /\ UNCHANGED <<parseVars, scanVars, lineVars, mainVars>>

\* "if key == name" is false
ScanSkipPackage ==
    /\ pc = "scan"
    /\ pi <= Len(packages)
    /\ key # Lower(packages[pi].name)
    /\ pi' = pi + 1
    /\ UNCHANGED <<pc, packages, required_by, extras, key, ei, di, drained, visited>>
    /\ UNCHANGED <<parseVars, scanVars, lineVars, mainVars>>

\* "for extra in value" is exhausted: the next package
ScanNextPackage ==
    /\ pc = "scan"
    /\ pi <= Len(packages)
    /\ key = Lower(packages[pi].name)
    /\ ei > Len(ValueOf(extras, key))
    /\ pi' = pi + 1
    /\ ei' = 1
    /\ UNCHANGED <<pc, packages, required_by, extras, key, di, drained, visited>>
    /\ UNCHANGED <<parseVars, scanVars, lineVars, mainVars>>

\* "if extra in package['extras']" is false
ScanSkipExtra ==
    /\ pc = "scan"
    /\ pi <= Len(packages)
    /\ key = Lower(packages[pi].name)
    /\ ei <= Len(ValueOf(extras, key))
    /\ ~HasGroup(packages[pi], ValueOf(extras, key)[ei])
    /\ ei' = ei + 1
    /\ UNCHANGED <<pc, packages, required_by, extras, key, pi, di, drained, visited>>
    /\ UNCHANGED <<parseVars, scanVars, lineVars, mainVars>>

\* "for dependency in package['extras'][extra]" is exhausted: the next extra
ScanNextExtra ==
    /\ pc = "scan"
    /\ pi <= Len(packages)
    /\ key = Lower(packages[pi].name)
    /\ ei <= Len(ValueOf(extras, key))
    /\ HasGroup(packages[pi], ValueOf(extras, key)[ei])
    /\ di > Len(Group(packages[pi], ValueOf(extras, key)[ei]))
    /\ ei' = ei + 1
    /\ di' = 1
    /\ UNCHANGED <<pc, packages, required_by, extras, key, pi, drained, visited>>
    /\ UNCHANGED <<parseVars, scanVars, lineVars, mainVars>>

\* one pass of the body of "for dependency in package['extras'][extra]"
ScanDependency ==
    /\ pc = "scan"
    /\ pi <= Len(packages)
    /\ key = Lower(packages[pi].name)
    /\ ei <= Len(ValueOf(extras, key))
    /\ HasGroup(packages[pi], ValueOf(extras, key)[ei])
    /\ di <= Len(Group(packages[pi], ValueOf(extras, key)[ei]))
    /\ LET requirer == Lower(packages[pi].name)
           dependency == Lower(Group(packages[pi], ValueOf(extras, key)[ei])[di])
       IN /\ extras' = Enqueue(extras, dependency)
          /\ required_by' = Record(required_by, RecordKey(dependency), requirer)
    /\ di' = di + 1
    /\ UNCHANGED <<pc, packages, key, pi, ei, drained, visited>>
    /\ UNCHANGED <<parseVars, scanVars, lineVars, mainVars>>

\* "for package in packages" is exhausted: del extras[key]
DeleteKey ==
    /\ pc = "scan"
    /\ pi > Len(packages)
    /\ drained' = drained \cup {[key |-> key, value |-> ValueOf(extras, key)]}
    /\ extras' = DelKey(extras, key)
    /\ pc' = "while"
    /\ UNCHANGED <<packages, required_by, key, pi, ei, di, visited>>
    /\ UNCHANGED <<parseVars, scanVars, lineVars, mainVars>>

NextClosure ==
    \/ DirectDependency
    \/ DirectNextPackage
    \/ DirectEnd
    \/ Return
    \/ PickKey
    \/ ScanSkipPackage
    \/ ScanNextPackage
    \/ ScanSkipExtra
    \/ ScanNextExtra
    \/ ScanDependency
    \/ DeleteKey

SpecClosure == InitClosure /\ [][NextClosure]_vars

(***************************************************************************)
(* is_package_required                                                     *)
(***************************************************************************)
\* return package['name'].lower() in required_by
IsPackageRequired(package, rb) == Lower(package.name) \in DOMAIN rb

(***************************************************************************)
(* Properties of get_packages_required_by                                  *)
(***************************************************************************)
Range(list) == {list[i] : i \in 1..Len(list)}
PackageSet == Range(packages)

\* the requirer list of a dependency, empty when the index has no such entry
Requirers(k) == IF k \in DOMAIN required_by THEN required_by[k] ELSE <<>>

IsLowerText(s) == \A i \in 1..Len(s) : s[i] \notin Range(UpperCase)

\* a declaration without its bracketed extras suffix
WithoutBracketSuffix(s) ==
    IF \E i \in 1..Len(s) : s[i] = "["
    THEN SubSeq(s, 1, (CHOOSE i \in 1..Len(s) : s[i] = "[" /\ \A j \in 1..(i - 1) : s[j] # "[") - 1)
    ELSE s

\* the (target, extra) pairs a lowercased declaration requests
RequestsOf(decl) ==
    IF HasChar(decl, "[")
    THEN {<<WithoutBracketSuffix(decl), part>> : part \in Range(Split(ExtraOf(decl), ","))}
    ELSE {}

\* the lowercased declarations under the extras group x of the packages named t
GroupDecls(t, x) ==
    UNION {{Lower(p.extras[g].deps[k]) : k \in 1..Len(p.extras[g].deps)} :
           <<p, g>> \in {<<q, h>> \in PackageSet \X (1..2) :
                            /\ Lower(q.name) = t
                            /\ h <= Len(q.extras)
                            /\ q.extras[h].key = x}}

DirectRequests ==
    UNION {RequestsOf(Lower(p.requires[d])) : <<p, d>> \in
           {<<q, e>> \in PackageSet \X (1..2) : e <= Len(q.requires)}}

\* every (target, extra) pair requested directly or through an activated extra
RECURSIVE Activations(_)
Activations(R) ==
    LET more == R \cup UNION {RequestsOf(e) : e \in UNION {GroupDecls(r[1], r[2]) : r \in R}}
    IN IF more = R THEN R ELSE Activations(more)

C2_Terminates == ~(pc = "while" /\ <<extras, required_by>> \in visited)

\* C3: once the first loop is over (and so in the returned index), for every
\* package P and every key D of P.requires, the entry keyed by lowercase D
\* without its bracket suffix holds lowercase P.name.
C3_DirectEdges ==
    pc \in {"while", "scan", "done"} =>
        \A p \in PackageSet : \A d \in 1..Len(p.requires) :
            InList(Requirers(WithoutBracketSuffix(Lower(p.requires[d]))), Lower(p.name))

\* a run has returned for a list with a bracketed requirement and with a
\* requirement on a package that is not in the list
C3_Witness ==
    /\ pc = "done"
    /\ \E p \in PackageSet : \E d \in 1..Len(p.requires) : HasChar(p.requires[d], "[")
    /\ \E p \in PackageSet : \E d \in 1..Len(p.requires) :
           \A q \in PackageSet : Lower(q.name) # WithoutBracketSuffix(Lower(p.requires[d]))

SameIgnoringCase(a, b) ==
    Len(a) = Len(b) /\ \A i \in 1..Len(a) : LowerChar(a[i]) = LowerChar(b[i])

\* C4: in every state every key of the index, every name stored in it and every
\* pending target is in lowercase; every drained target was matched to the
\* packages of the same lowercased name; and when the function has returned, a
\* package of the list whose lowercased name is the lowercased requirement of P
\* is required, with lowercase P.name in its entry.
C4_CaseInsensitive ==
    /\ \A k \in DOMAIN required_by :
           IsLowerText(k) /\ \A n \in Range(required_by[k]) : IsLowerText(n)
    /\ \A i \in 1..Len(extras) : IsLowerText(extras[i].key)
    /\ \A item \in drained : \A q \in PackageSet :
           SameIgnoringCase(q.name, item.key)
           => \A x \in Range(item.value) : \A g \in 1..Len(q.extras) :
                  q.extras[g].key = x
                  => \A e \in Range(q.extras[g].deps) :
                         InList(Requirers(WithoutBracketSuffix(Lower(e))), item.key)
    /\ pc = "done" =>
           \A p \in PackageSet : \A d \in 1..Len(p.requires) : \A q \in PackageSet :
               Lower(q.name) = WithoutBracketSuffix(Lower(p.requires[d]))
               => /\ IsPackageRequired(q, required_by)
                  /\ InList(required_by[Lower(q.name)], Lower(p.name))

\* the run on the package App that requires Lib, with a package lib in the list,
\* has returned, and a target declared with an uppercase letter was drained
C4_Witness ==
    /\ pc = "done"
    /\ \E p \in PackageSet : p.name = tApp /\ InList(p.requires, tLib)
    /\ \E q \in PackageSet : q.name = tlib
    /\ InList(Requirers(tlib), <<"a", "p", "p">>)
    /\ \E item \in drained : \E q \in PackageSet :
           /\ q.name # item.key
           /\ SameIgnoringCase(q.name, item.key)
           /\ \E x \in Range(item.value) : HasGroup(q, x)

NoDuplicates(list) == \A i, j \in 1..Len(list) : list[i] = list[j] => i = j

\* C5: in every state no requirer list of the index holds a name twice.
C5_NoDuplicateRequirers == \A k \in DOMAIN required_by : NoDuplicates(required_by[k])

\* a run has returned in which the same requirement edge was declared more
\* than once: by two packages of one name, and by an activated extra
C5_Witness ==
    /\ pc = "done"
    /\ \E i, j \in 1..Len(packages) :
           /\ i # j
           /\ Lower(packages[i].name) = Lower(packages[j].name)
           /\ \E d \in 1..Len(packages[i].requires) : \E e \in 1..Len(packages[j].requires) :
                  WithoutBracketSuffix(Lower(packages[i].requires[d]))
                      = WithoutBracketSuffix(Lower(packages[j].requires[e]))
    /\ \E r \in Activations(DirectRequests) : \E c \in GroupDecls(r[1], r[2]) :
           \E p \in PackageSet : \E d \in 1..Len(p.requires) :
               /\ Lower(p.name) = r[1]
               /\ WithoutBracketSuffix(Lower(p.requires[d])) = WithoutBracketSuffix(c)

\* no package of the list named k has a group keyed by one of the extras of v
Unresolvable(k, v) ==
    \A p \in PackageSet :
        Lower(p.name) = k =>
            \A x \in Range(v) : \A g \in 1..Len(p.extras) : p.extras[g].key # x

\* C10: while the pending item being drained matches no package, or none of its
\* extras is a group of a matched package, no step changes the index, and the
\* only change to the queue is the removal of that item.
C10_UnresolvableSkipped ==
    [][(pc = "scan" /\ Unresolvable(key, ValueOf(extras, key)))
       => /\ required_by' = required_by
          /\ \/ extras' = extras
             \/ /\ pc' = "while"
                /\ extras' = Tail(extras)
                /\ key \notin KeysOf(extras')]_vars

\* an item whose target is not in the list and an item whose extras are no
\* group of the matched package have both been removed from the queue
C10_Witness ==
    /\ pc = "while"
    /\ \E item \in drained :
           /\ Unresolvable(item.key, item.value)
           /\ \A p \in PackageSet : Lower(p.name) # item.key
    /\ \E item \in drained :
           /\ Unresolvable(item.key, item.value)
           /\ \E p \in PackageSet : Lower(p.name) = item.key

(***************************************************************************)
(* Texts of the two parsers                                                *)
(***************************************************************************)
Whitespace == {" ", "\n", "\t", "\r"}

\* str.strip()
RECURSIVE Strip(_)
Strip(s) ==
    IF s = <<>> THEN s
    ELSE IF Head(s) \in Whitespace THEN Strip(Tail(s))
    ELSE IF s[Len(s)] \in Whitespace THEN Strip(SubSeq(s, 1, Len(s) - 1))
    ELSE s

\* the text lit stands in s at position i
MatchAt(s, i, lit) ==
    /\ i >= 1
    /\ i + Len(lit) - 1 <= Len(s)
    /\ \A k \in 1..Len(lit) : s[i + k - 1] = lit[k]

\* str.startswith()
StartsWith(s, prefix) == MatchAt(s, 1, prefix)

\* "sub in s" for a text sub
HasText(s, sub) == \E i \in 1..Len(s) : MatchAt(s, i, sub)

\* s without its first n characters
DropFirst(s, n) == SubSeq(s, n + 1, Len(s))

\* re.sub("^" + prefix, "", s)
DropPrefix(s, prefix) == IF StartsWith(s, prefix) THEN DropFirst(s, Len(prefix)) ELSE s

\* the position after the run of the character c that starts at position i ("c*")
RECURSIVE SkipRun(_, _, _)
SkipRun(s, i, c) == IF i <= Len(s) /\ s[i] = c THEN SkipRun(s, i + 1, c) ELSE i

\* the position after " *;* *" matched from position i
SkipSeparators(s, i) == SkipRun(s, SkipRun(s, SkipRun(s, i, " "), ";"), " ")

\* s.split(sep) for a text sep
RECURSIVE SplitText(_, _)
SplitText(s, sep) ==
    IF HasText(s, sep)
    THEN LET i == CHOOSE p \in 1..Len(s) :
                      MatchAt(s, p, sep) /\ \A q \in 1..(p - 1) : ~MatchAt(s, q, sep)
         IN <<SubSeq(s, 1, i - 1)>> \o SplitText(DropFirst(s, i + Len(sep) - 1), sep)
    ELSE <<s>>

Terminators == {" ", ";", "!", "~", "<", "=", ">"}

\* dependency = re.sub(r"[ ;!~<=>].*", "", line)
DependencyOf(line) ==
    IF \E i \in 1..Len(line) : line[i] \in Terminators
    THEN SubSeq(line, 1, (CHOOSE i \in 1..Len(line) :
                              line[i] \in Terminators
                              /\ \A j \in 1..(i - 1) : line[j] \notin Terminators) - 1)
    ELSE line

\* if '[' in dependency: conditions = re.sub(r"^.*] *;* *", "", line)
\* else: conditions = re.sub(r"^" + dependency + " *;* *", "", line)
\* (the dependency names of the model hold no character that is special in a
\* regular expression other than '.', '[' and ']', so the second pattern is
\* the name itself)
ConditionsOf(line) ==
    IF HasChar(DependencyOf(line), "[")
    THEN IF HasChar(line, "]")
         THEN DropFirst(line, SkipSeparators(line, LastIndex(line, "]") + 1) - 1)
         ELSE line
    ELSE DropFirst(line, SkipSeparators(line, Len(DependencyOf(line)) + 1) - 1)

ExtraMarker == <<"e", "x", "t", "r", "a", " ", "=", "=", " ">>
Quotes == {"'", "\""}

\* extra = re.sub(r"['\"].*", "", part[1:])
ExtraNamed(part) ==
    LET rest == DropFirst(part, 1)
    IN IF \E i \in 1..Len(rest) : rest[i] \in Quotes
       THEN SubSeq(rest, 1, (CHOOSE i \in 1..Len(rest) :
                                 rest[i] \in Quotes
                                 /\ \A j \in 1..(i - 1) : rest[j] \notin Quotes) - 1)
       ELSE rest

\* the position after a match of the pattern at position i, 0 when it does not
\* match there:
\*   "marker"  r" *;* *extra == ." + extra + ". *"
\*   "and;"    r" *and *;"
\*   ";and"    r";and *"
MatchEnd(pattern, s, i, extra_name) ==
    CASE pattern = "marker" ->
           LET m == SkipSeparators(s, i)
               e == m + Len(ExtraMarker) + 1
           IN IF /\ MatchAt(s, m, ExtraMarker)
                 /\ MatchAt(s, e, extra_name)
                 /\ e + Len(extra_name) <= Len(s)
              THEN SkipRun(s, e + Len(extra_name) + 1, " ")
              ELSE 0
      [] pattern = "and;" ->
           LET a == SkipRun(s, i, " ")
               b == SkipRun(s, a + 3, " ")
           IN IF MatchAt(s, a, <<"a", "n", "d">>) /\ b <= Len(s) /\ s[b] = ";"
              THEN b + 1
              ELSE 0
      [] pattern = ";and" ->
           IF MatchAt(s, i, <<";", "a", "n", "d">>) THEN SkipRun(s, i + 4, " ") ELSE 0

\* re.sub(pattern, replacement, s) from position i on: every match, leftmost first
RECURSIVE Substitute(_, _, _, _, _)
Substitute(pattern, s, i, extra_name, replacement) ==
    IF i > Len(s) THEN <<>>
    ELSE IF MatchEnd(pattern, s, i, extra_name) > 0
         THEN replacement
              \o Substitute(pattern, s, MatchEnd(pattern, s, i, extra_name), extra_name, replacement)
         ELSE <<s[i]>> \o Substitute(pattern, s, i + 1, extra_name, replacement)

\* re.sub(r";$", "", s)
DropLastSemicolon(s) ==
    IF s # <<>> /\ s[Len(s)] = ";" THEN SubSeq(s, 1, Len(s) - 1) ELSE s

\* the four substitutions that remove extra == "NAME" from the conditions
StripMarker(conditions, extra_name) ==
    DropLastSemicolon(
        Substitute(";and",
            Substitute("and;",
                Substitute("marker", conditions, 1, extra_name, <<";">>),
                1, <<>>, <<>>),
            1, <<>>, <<";">>))

(***************************************************************************)
(* Values stored in the requires and extras dictionaries                   *)
(***************************************************************************)
\* a str
PyStr(s) == [type |-> "str", text |-> s]
\* the empty dict {} that process_requires_file stores before the conditions
PyEmptyDict == [type |-> "dict", text |-> <<>>]

Semicolon(s) == IF s = <<>> THEN <<>> ELSE <<";">> \o s

EmptyMap == <<>>

\* a mutant of Put: a repeated declaration replaces the stored conditions
PutReplaces(map, dependency, conditions) ==
    IF dependency \in DOMAIN map
    THEN [map EXCEPT ![dependency] = PyStr(conditions)]
    ELSE map @@ (dependency :> PyStr(conditions))

\* the metadata scan's filing of one dependency:
\* if dependency in map: if conditions: map[dependency] += ";" + conditions
\* else: map[dependency] = conditions
Put(map, dependency, conditions) ==
    IF dependency \in DOMAIN map
    THEN [map EXCEPT ![dependency] = PyStr(@.text \o Semicolon(conditions))]
    ELSE map @@ (dependency :> PyStr(conditions))

\* process_requires_file: "+=" is applied to a stored {} (a TypeError)
Raises(map, dependency, conditions, header_conditions) ==
    /\ dependency \in DOMAIN map
    /\ map[dependency].type = "dict"
    /\ (conditions # <<>> \/ header_conditions # <<>>)

\* process_requires_file's filing of one dependency, when it does not raise
Store(map, dependency, conditions, header_conditions) ==
    IF dependency \in DOMAIN map
    THEN IF conditions = <<>> /\ header_conditions = <<>>
         THEN map
         ELSE [map EXCEPT ![dependency] =
                   PyStr(@.text \o Semicolon(conditions) \o Semicolon(header_conditions))]
    ELSE map @@ (dependency :>
                    IF conditions = <<>> /\ header_conditions = <<>>
                    THEN PyEmptyDict
                    ELSE PyStr(IF conditions = <<>> THEN header_conditions
                               ELSE conditions \o Semicolon(header_conditions)))

(***************************************************************************)
(* Files of one package directory                                          *)
(***************************************************************************)
tNamePrefix == <<"N", "a", "m", "e", ":", " ">>
tVersionPrefix == <<"V", "e", "r", "s", "i", "o", "n", ":", " ">>
tSummaryPrefix == <<"S", "u", "m", "m", "a", "r", "y", ":", " ">>
tMetadataVersionPrefix == <<"M", "e", "t", "a", "d", "a", "t", "a", "-", "V", "e", "r", "s", "i", "o", "n", ":", " ">>
tRequiresDistPrefix == <<"R", "e", "q", "u", "i", "r", "e", "s", "-", "D", "i", "s", "t", ":", " ">>

\* the prefixes of the fields that the scan passes over
OtherPrefixes ==
    { <<"H", "o", "m", "e", "-", "p", "a", "g", "e", ":", " ">>,
      <<"P", "r", "o", "j", "e", "c", "t", "-", "U", "R", "L", ":", " ">>,
      <<"D", "o", "w", "n", "l", "o", "a", "d", "-", "U", "R", "L", ":", " ">>,
      <<"A", "u", "t", "h", "o", "r", ":", " ">>,
      <<"A", "u", "t", "h", "o", "r", "-", "e", "m", "a", "i", "l", ":", " ">>,
      <<"M", "a", "i", "n", "t", "a", "i", "n", "e", "r", ":", " ">>,
      <<"M", "a", "i", "n", "t", "a", "i", "n", "e", "r", "-", "e", "m", "a", "i", "l", ":", " ">>,
      <<"L", "i", "c", "e", "n", "s", "e", ":", " ">>,
      <<"L", "i", "c", "e", "n", "s", "e", "-", "E", "x", "p", "r", "e", "s", "s", "i", "o", "n", ":", " ">>,
      <<"L", "i", "c", "e", "n", "s", "e", "-", "F", "i", "l", "e", ":", " ">>,
      <<"P", "l", "a", "t", "f", "o", "r", "m", ":", " ">>,
      <<"R", "e", "q", "u", "i", "r", "e", "s", "-", "P", "y", "t", "h", "o", "n", ":", " ">>,
      <<"K", "e", "y", "w", "o", "r", "d", "s", ":", " ">>,
      <<"C", "l", "a", "s", "s", "i", "f", "i", "e", "r", ":", " ">>,
      <<"D", "e", "s", "c", "r", "i", "p", "t", "i", "o", "n", "-", "C", "o", "n", "t", "e", "n", "t", "-", "T", "y", "p", "e", ":", " ">>,
      <<"P", "r", "o", "v", "i", "d", "e", "s", ":", " ">>,
      <<"P", "r", "o", "v", "i", "d", "e", "s", "-", "E", "x", "t", "r", "a", ":", " ">> }

tfoo == <<"f", "o", "o">>
tpkgA == <<"p", "k", "g", "A">>
tpkgB == <<"p", "k", "g", "B">>
tpkgC == <<"p", "k", "g", "C">>
textra1 == <<"e", "x", "t", "r", "a", "1">>
tNone == <<>>
tGe1 == <<">", "=", "1", ".", "0">>
tGe2 == <<">", "=", "2", ".", "0">>
tLt3 == <<"<", "3">>
twin == <<"w", "i", "n">>
tNewline == <<"\n">>
tMarkerX == <<";", " ", "e", "x", "t", "r", "a", " ", "=", "=", " ", "'", "x", "'">>
tMarkerXorY == <<";", " ", "e", "x", "t", "r", "a", " ", "=", "=", " ", "\"", "x", "\"", " ", "o", "r", " ", "e", "x", "t", "r", "a", " ", "=", "=", " ", "\"", "y", "\"">>

\* the dependency names, conditions and extra markers of the Requires-Dist lines
LineDependencies == {tpkgB}
LineConditions == {tNone, tGe2, tLt3}
LineMarkers == {tNone, tMarkerX}

RequiresDistText(dependency, conditions, marker) ==
    tRequiresDistPrefix \o dependency \o conditions \o marker \o tNewline

MetadataLinePool ==
    { RequiresDistText(d, c, m) : <<d, c, m>> \in LineDependencies \X LineConditions \X LineMarkers }
    \cup { RequiresDistText(<<"q", "u", "x">>, tNone, tMarkerXorY),
           <<"M", "e", "t", "a", "d", "a", "t", "a", "-", "V", "e", "r", "s", "i", "o", "n", ":", " ", "2", ".", "1", "\n">>,
           <<"N", "a", "m", "e", ":", " ", "f", "o", "o", "\n">>,
           <<"V", "e", "r", "s", "i", "o", "n", ":", " ", "1", ".", "0", "\n">>,
           <<"S", "u", "m", "m", "a", "r", "y", ":", " ", "s", "\n">>,
           <<"H", "o", "m", "e", "-", "p", "a", "g", "e", ":", " ", "h", "\n">>,
           <<"B", "o", "g", "u", "s", "\n">>,
           <<"\n">>,
           <<" ", " ", "\n">> }

\* the header names and conditions, and the requirement lines, of requires.txt
HeaderNames == {tNone, textra1}
HeaderConditions == {tNone, twin}
HeaderText(extra_name, conditions) ==
    <<"[">> \o extra_name \o (IF conditions = <<>> THEN <<>> ELSE <<":">> \o conditions)
    \o <<"]", "\n">>
RequirementText(dependency, conditions) == dependency \o conditions \o tNewline

RequiresLinePool ==
    { HeaderText(e, c) : <<e, c>> \in HeaderNames \X HeaderConditions }
    \cup { RequirementText(tpkgA, tNone),
           RequirementText(tpkgA, tGe1),
           RequirementText(tpkgB, tGe2),
           RequirementText(tpkgB, tLt3),
           RequirementText(tpkgC, tNone),
           tNewline }

\* the legacy requirements file of the specification's scenario
LegacyScenario ==
    << RequirementText(tpkgA, tNone),
       HeaderText(textra1, tNone),
       RequirementText(tpkgB, tGe2),
       HeaderText(tNone, tNone),
       RequirementText(tpkgC, tNone) >>

FilesOf(pool, n) == UNION {[1..k -> pool] : k \in 0..n}

\* the metadata record of the specification's blank-line scenario
BlankScenario == << <<"N", "a", "m", "e", ":", " ", "f", "o", "o", "\n">>, <<"\n">>, RequiresDistText(tpkgB, tNone, tNone) >>

\* METADATA files of .dist-info directories
MetadataFiles == FilesOf(MetadataLinePool, MaxMetadataLines) \cup {BlankScenario}

\* PKG-INFO files of .egg-info directories
PkgInfoPlain == << <<"N", "a", "m", "e", ":", " ", "f", "o", "o", "\n">> >>
PkgInfoWithRequirements ==
    << <<"N", "a", "m", "e", ":", " ", "f", "o", "o", "\n">>,
       RequiresDistText(tpkgB, tGe2, tNone),
       RequiresDistText(tpkgB, tLt3, tNone) >>
PkgInfoFiles == {PkgInfoPlain, PkgInfoWithRequirements}

\* requires.txt files of .egg-info directories
RequiresFiles == FilesOf(RequiresLinePool, MaxRequiresLines) \cup {LegacyScenario}

(***************************************************************************)
(* get_info_from_site_packages_dir: the scan of one metadata file          *)
(***************************************************************************)
InitParse ==
    /\ \/ /\ metadata_lines \in MetadataFiles
          /\ requires_file = FALSE
          /\ requires_lines = <<>>
       \/ /\ metadata_lines \in PkgInfoFiles
          /\ requires_file = TRUE
          /\ requires_lines \in RequiresFiles
    /\ pc = "metadata"
    /\ li = 1
    /\ ri = 1
    /\ name = <<>>
    /\ version = <<>>
    /\ summary = <<>>
    /\ requires = EmptyMap
    /\ package_extras = EmptyMap
    /\ extra = <<>>
    /\ extra_conditions = <<>>
    /\ error = ""
    \* get_packages_required_by is not running
    /\ packages = <<>>
    /\ required_by = <<>>
    /\ extras = <<>>
    /\ key = <<>>
    /\ pi = 1
    /\ ei = 1
    /\ di = 1
    /\ drained = {}
    /\ visited = {}
    \* no directory is being scanned
    /\ items = <<>>
    /\ ii = 1
    /\ info = <<>>
    /\ deja_vu = <<>>
    /\ yielded = <<>>
    \* no single requirement expression is being followed
    /\ req_line = <<>>
    /\ req_dependency = <<>>
    /\ req_conditions = <<>>
    /\ req_extras = <<>>
    \* main is not running
    /\ parameters = <<>>
    /\ oi = 0
    /\ given = <<>>
    /\ arguments = <<>>
    /\ main_packages = <<>>
    /\ latest_versions = <<>>
    /\ vulnerabilities = <<>>

\* line = line.strip(), for the line the scan is at
MetadataLine == Strip(metadata_lines[li])

AtMetadataLine == pc = "metadata" /\ li <= Len(metadata_lines)

\* if line.startswith("Metadata-Version: "): only logged
MetadataVersionLine ==
    /\ AtMetadataLine
    /\ StartsWith(MetadataLine, tMetadataVersionPrefix)
    /\ li' = li + 1
    /\ UNCHANGED <<pc, metadata_lines, requires_file, requires_lines, ri, name, version,
                   summary, requires, package_extras, extra, extra_conditions, error>>
    /\ UNCHANGED <<closureVars, scanVars, lineVars, mainVars>>

\* name = re.sub(r"^Name: ", "", line)
NameLine ==
    /\ AtMetadataLine
    /\ StartsWith(MetadataLine, tNamePrefix)
    /\ name' = DropPrefix(MetadataLine, tNamePrefix)
    /\ li' = li + 1
    /\ UNCHANGED <<pc, metadata_lines, requires_file, requires_lines, ri, version,
                   summary, requires, package_extras, extra, extra_conditions, error>>
    /\ UNCHANGED <<closureVars, scanVars, lineVars, mainVars>>

\* version = re.sub(r"^Version: ", "", line)
VersionLine ==
    /\ AtMetadataLine
    /\ StartsWith(MetadataLine, tVersionPrefix)
    /\ version' = DropPrefix(MetadataLine, tVersionPrefix)
    /\ li' = li + 1
    /\ UNCHANGED <<pc, metadata_lines, requires_file, requires_lines, ri, name,
                   summary, requires, package_extras, extra, extra_conditions, error>>
    /\ UNCHANGED <<closureVars, scanVars, lineVars, mainVars>>

\* summary = re.sub(r"^Summary: ", "", line)
SummaryLine ==
    /\ AtMetadataLine
    /\ StartsWith(MetadataLine, tSummaryPrefix)
    /\ summary' = DropPrefix(MetadataLine, tSummaryPrefix)
    /\ li' = li + 1
    /\ UNCHANGED <<pc, metadata_lines, requires_file, requires_lines, ri, name,
                   version, requires, package_extras, extra, extra_conditions, error>>
    /\ UNCHANGED <<closureVars, scanVars, lineVars, mainVars>>

\* if extra not in extras: extras[extra] = {}; then the filing of the dependency
FileUnderExtra(ex, extra_name, dependency, conditions) ==
    LET base == IF extra_name \in DOMAIN ex THEN ex ELSE ex @@ (extra_name :> EmptyMap)
    IN [base EXCEPT ![extra_name] = Put(@, dependency, conditions)]

\* a mutant of FileUnderExtras: a line with an extra marker is filed nowhere
FileUnderNoExtra(ex, dependency, conditions, parts) == ex

\* for part in conditions.split("extra == ")[1:]: ...
\* the result is the extras dictionary after the loop
RECURSIVE FileUnderExtras(_, _, _, _)
FileUnderExtras(ex, dependency, conditions, parts) ==
    IF parts = <<>> THEN ex
    ELSE LET extra_name == ExtraNamed(Head(parts))
             stripped == StripMarker(conditions, extra_name)
         IN FileUnderExtras(FileUnderExtra(ex, extra_name, dependency, stripped),
                            dependency, stripped, Tail(parts))

\* elif line.startswith("Requires-Dist: "): ...
RequiresDistLine ==
    /\ AtMetadataLine
    /\ StartsWith(MetadataLine, tRequiresDistPrefix)
    /\ LET line == DropPrefix(MetadataLine, tRequiresDistPrefix)
           dependency == DependencyOf(line)
           conditions == ConditionsOf(line)
       IN IF HasText(line, ExtraMarker)
          THEN /\ package_extras' =
                      FileUnderExtras(package_extras, dependency, conditions,
                                      Tail(SplitText(conditions, ExtraMarker)))
               /\ UNCHANGED requires
          ELSE /\ requires' = Put(requires, dependency, conditions)
               /\ UNCHANGED package_extras
    /\ li' = li + 1
    /\ UNCHANGED <<pc, metadata_lines, requires_file, requires_lines, ri, name, version,
                   summary, extra, extra_conditions, error>>
    /\ UNCHANGED <<closureVars, scanVars, lineVars, mainVars>>

HasKnownPrefix(line) ==
    \/ \E p \in {tMetadataVersionPrefix, tNamePrefix, tVersionPrefix, tSummaryPrefix,
                 tRequiresDistPrefix} : StartsWith(line, p)
    \/ \E p \in OtherPrefixes : StartsWith(line, p)

\* elif line.startswith("Home-page: "): pass, and the like
OtherFieldLine ==
    /\ AtMetadataLine
    /\ \E p \in OtherPrefixes : StartsWith(MetadataLine, p)
    /\ li' = li + 1
    /\ UNCHANGED <<pc, metadata_lines, requires_file, requires_lines, ri, name, version,
                   summary, requires, package_extras, extra, extra_conditions, error>>
    /\ UNCHANGED <<closureVars, scanVars, lineVars, mainVars>>

\* a mutant of BlankLine: the scan goes on after a blank line
BlankLineSkipped ==
    /\ AtMetadataLine
    /\ ~HasKnownPrefix(MetadataLine)
    /\ MetadataLine = <<>>
    /\ li' = li + 1
    /\ UNCHANGED <<pc, metadata_lines, requires_file, requires_lines, ri, name, version,
                   summary, requires, package_extras, extra, extra_conditions, error>>
    /\ UNCHANGED <<closureVars, scanVars, lineVars, mainVars>>

\* elif not line: break
BlankLine ==
    /\ AtMetadataLine
    /\ ~HasKnownPrefix(MetadataLine)
    /\ MetadataLine = <<>>
    /\ pc' = "scanned"
    /\ li' = li + 1
    /\ UNCHANGED <<metadata_lines, requires_file, requires_lines, ri, name, version,
                   summary, requires, package_extras, extra, extra_conditions, error>>
    /\ UNCHANGED <<closureVars, scanVars, lineVars, mainVars>>

\* else: logging.info("'%s' has unknown '%s'", metadata_file, line)
UnknownLine ==
    /\ AtMetadataLine
    /\ ~HasKnownPrefix(MetadataLine)
    /\ MetadataLine # <<>>
    /\ li' = li + 1
    /\ UNCHANGED <<pc, metadata_lines, requires_file, requires_lines, ri, name, version,
                   summary, requires, package_extras, extra, extra_conditions, error>>
    /\ UNCHANGED <<closureVars, scanVars, lineVars, mainVars>>

\* "for line in lines" is exhausted
MetadataEnd ==
    /\ pc = "metadata"
    /\ li > Len(metadata_lines)
    /\ pc' = "scanned"
    /\ UNCHANGED <<metadata_lines, requires_file, requires_lines, li, ri, name, version,
                   summary, requires, package_extras, extra, extra_conditions, error>>
    /\ UNCHANGED <<closureVars, scanVars, lineVars, mainVars>>

\* if requires_file and os.path.isfile(requires_file): the call of
\* process_requires_file, up to "for line in lines"
RequiresFileOpened ==
    /\ pc = "scanned"
    /\ requires_file
    /\ pc' = "requires"
    /\ ri' = 1
    /\ extra' = <<>>
    /\ extra_conditions' = <<>>
    /\ UNCHANGED <<metadata_lines, requires_file, requires_lines, li, name, version,
                   summary, requires, package_extras, error>>
    /\ UNCHANGED <<closureVars, scanVars, lineVars, mainVars>>

\* no requires.txt: the package is complete
NoRequiresFile ==
    /\ pc = "scanned"
    /\ ~requires_file
    /\ pc' = "parsed"
    /\ UNCHANGED <<metadata_lines, requires_file, requires_lines, li, ri, name, version,
                   summary, requires, package_extras, extra, extra_conditions, error>>
    /\ UNCHANGED <<closureVars, scanVars, lineVars, mainVars>>

(***************************************************************************)
(* process_requires_file                                                   *)
(***************************************************************************)
RequiresLine == Strip(requires_lines[ri])

AtRequiresLine == pc = "requires" /\ ri <= Len(requires_lines)

\* "if line:" is false
RequiresBlankLine ==
    /\ AtRequiresLine
    /\ RequiresLine = <<>>
    /\ ri' = ri + 1
    /\ UNCHANGED <<pc, metadata_lines, requires_file, requires_lines, li, name, version,
                   summary, requires, package_extras, extra, extra_conditions, error>>
    /\ UNCHANGED <<closureVars, scanVars, lineVars, mainVars>>

\* line = re.sub(r"^ *\[", "", line); line = re.sub(r"\] *$", "", line)
HeaderInner(line) ==
    LET opened == DropFirst(line, 1)
    IN IF opened # <<>> /\ opened[Len(opened)] = "]"
       THEN SubSeq(opened, 1, Len(opened) - 1)
       ELSE opened

\* a mutant of HeaderExtra: an empty header keeps the extra of the header before
HeaderExtraKept(line, current) ==
    IF Split(HeaderInner(line), ":")[1] = <<>> THEN current
    ELSE Split(HeaderInner(line), ":")[1]

\* parts = line.split(":"); extra = parts[0]
HeaderExtra(line, current) == Split(HeaderInner(line), ":")[1]

\* a mutant of HeaderConditionsOf: the condition of a header is dropped
HeaderConditionsNone(line) == <<>>

\* extra_conditions = parts[1] if len(parts) > 1 else ""
HeaderConditionsOf(line) ==
    LET parts == Split(HeaderInner(line), ":")
    IN IF Len(parts) > 1 THEN parts[2] ELSE <<>>

\* if line[0] == '[': ...
RequiresHeaderLine ==
    /\ AtRequiresLine
    /\ RequiresLine # <<>>
    /\ RequiresLine[1] = "["
    /\ extra' = HeaderExtra(RequiresLine, extra)
    /\ extra_conditions' = HeaderConditionsOf(RequiresLine)
    /\ package_extras' =
           IF extra' # <<>> /\ extra' \notin DOMAIN package_extras
           THEN package_extras @@ (extra' :> EmptyMap)
           ELSE package_extras
    /\ ri' = ri + 1
    /\ UNCHANGED <<pc, metadata_lines, requires_file, requires_lines, li, name, version,
                   summary, requires, error>>
    /\ UNCHANGED <<closureVars, scanVars, lineVars, mainVars>>

\* the dictionary the requirement lines are filed in
Target == IF extra # <<>> THEN package_extras[extra] ELSE requires

AtRequirementLine ==
    /\ AtRequiresLine
    /\ RequiresLine # <<>>
    /\ RequiresLine[1] # "["

\* the requirement line is filed
RequirementLine ==
    /\ AtRequirementLine
    /\ LET dependency == DependencyOf(RequiresLine)
           conditions == ConditionsOf(RequiresLine)
       IN /\ ~Raises(Target, dependency, conditions, extra_conditions)
          /\ IF extra # <<>>
             THEN /\ package_extras' =
                         [package_extras EXCEPT ![extra] =
                              Store(@, dependency, conditions, extra_conditions)]
                  /\ UNCHANGED requires
             ELSE /\ requires' = Store(requires, dependency, conditions, extra_conditions)
                  /\ UNCHANGED package_extras
    /\ ri' = ri + 1
    /\ UNCHANGED <<pc, metadata_lines, requires_file, requires_lines, li, name, version,
                   summary, extra, extra_conditions, error>>
    /\ UNCHANGED <<closureVars, scanVars, lineVars, mainVars>>

\* the requirement line applies += to a stored {}: TypeError leaves the function
RequirementLineRaises ==
    /\ AtRequirementLine
    /\ Raises(Target, DependencyOf(RequiresLine), ConditionsOf(RequiresLine), extra_conditions)
    /\ pc' = "raised"
    /\ error' = "TypeError"
    /\ UNCHANGED <<metadata_lines, requires_file, requires_lines, li, ri, name, version,
                   summary, requires, package_extras, extra, extra_conditions>>
    /\ UNCHANGED <<closureVars, scanVars, lineVars, mainVars>>

\* "for line in lines" is exhausted: return requires, extras
RequiresEnd ==
    /\ pc = "requires"
    /\ ri > Len(requires_lines)
    /\ pc' = "parsed"
    /\ UNCHANGED <<metadata_lines, requires_file, requires_lines, li, ri, name, version,
                   summary, requires, package_extras, extra, extra_conditions, error>>
    /\ UNCHANGED <<closureVars, scanVars, lineVars, mainVars>>

NextParse ==
    \/ MetadataVersionLine
    \/ NameLine
    \/ VersionLine
    \/ SummaryLine
    \/ RequiresDistLine
    \/ OtherFieldLine
    \/ BlankLine
    \/ UnknownLine
    \/ MetadataEnd
    \/ RequiresFileOpened
    \/ NoRequiresFile
    \/ RequiresBlankLine
    \/ RequiresHeaderLine
    \/ RequirementLine
    \/ RequirementLineRaises
    \/ RequiresEnd

SpecParse == InitParse /\ [][NextParse]_vars

(***************************************************************************)
(* Properties of the two parsers                                           *)
(***************************************************************************)
\* C6: neither the metadata scan nor process_requires_file raises: no run of
\* the parsers is left by an exception.
C6_ParsersNeverRaise == pc # "raised" /\ error = ""

\* C7: process_requires_file on the lines pkgA, [extra1], pkgB>=2.0, [], pkgC
\* and empty mappings returns requires = {pkgA: "", pkgC: ""} and
\* extras = {extra1: {pkgB: ">=2.0"}}.
C7_LegacyScenarioResult ==
    (/\ pc = "parsed"
     /\ requires_file
     /\ metadata_lines = PkgInfoPlain
     /\ requires_lines = LegacyScenario)
    => /\ requires = (tpkgA :> PyStr(<<>>)) @@ (tpkgC :> PyStr(<<>>))
       /\ package_extras = (textra1 :> (tpkgB :> PyStr(tGe2)))

\* the dependency names and the non-empty conditions of the requirement lines
DeclaredDependencies == {tpkgA, tpkgB, tpkgC}
DeclaredConditions == {tGe1, tGe2, tLt3}

\* the scan is at the Requires-Dist line made of these parts
MetadataDeclares(d, c, m) ==
    AtMetadataLine /\ metadata_lines[li] = RequiresDistText(d, c, m)

\* process_requires_file is at the requirement line made of these parts
RequiresDeclares(d, c) ==
    AtRequiresLine /\ requires_lines[ri] = RequirementText(d, c)

\* the text a then ';' then b, or b alone for a first declaration
MergedText(map, d, b) ==
    IF d \in DOMAIN map THEN map[d].text \o <<";">> \o b ELSE b

\* the dependency is new to the mapping, or stored with a non-empty condition
NewOrConditioned(map, d) ==
    d \in DOMAIN map => (map[d].type = "str" /\ map[d].text # <<>>)

\* the mapping next holds d once more at most, with the merged condition
MergedInto(map, next, d, b) ==
    /\ DOMAIN next = DOMAIN map \cup {d}
    /\ next[d] = PyStr(MergedText(map, d, b))
    /\ \A o \in DOMAIN map \ {d} : next[o] = map[o]

GroupOrEmpty(map, x) == IF x \in DOMAIN map THEN map[x] ELSE EmptyMap

\* C8: a declaration of dependency d with the non-empty condition b, where d
\* is new or stored with a non-empty condition a, leaves one key d, whose
\* stored condition is b for a new key and a;b otherwise: for the metadata
\* scan in requires and in the group of the extra marker, and for
\* process_requires_file in requires and in the group of the current header
\* (b is then the line's condition followed by ';' and the header's, if any).
C8_MergeLaw ==
    [][\A d \in DeclaredDependencies : \A c \in DeclaredConditions :
        /\ (MetadataDeclares(d, c, tNone) /\ NewOrConditioned(requires, d))
           => MergedInto(requires, requires', d, c)
        /\ (MetadataDeclares(d, c, tMarkerX)
            /\ NewOrConditioned(GroupOrEmpty(package_extras, tx), d))
           => /\ tx \in DOMAIN package_extras'
              /\ MergedInto(GroupOrEmpty(package_extras, tx), package_extras'[tx], d, c)
        /\ (RequiresDeclares(d, c) /\ extra = <<>> /\ NewOrConditioned(requires, d))
           => MergedInto(requires, requires', d,
                         c \o (IF extra_conditions = <<>> THEN <<>>
                               ELSE <<";">> \o extra_conditions))
        /\ (RequiresDeclares(d, c) /\ extra # <<>>
            /\ NewOrConditioned(package_extras[extra], d))
           => MergedInto(package_extras[extra], package_extras'[extra], d,
                         c \o (IF extra_conditions = <<>> THEN <<>>
                               ELSE <<";">> \o extra_conditions))
      ]_vars

tGe2Lt3 == tGe2 \o <<";">> \o tLt3

\* pkgB was declared with >=2.0 then <3 in PKG-INFO, and again under the
\* header [extra1] of requires.txt: both stored conditions are ">=2.0;<3"
C8_Witness ==
    /\ pc = "parsed"
    /\ tpkgB \in DOMAIN requires
    /\ requires[tpkgB] = PyStr(tGe2Lt3)
    /\ textra1 \in DOMAIN package_extras
    /\ tpkgB \in DOMAIN package_extras[textra1]
    /\ package_extras[textra1][tpkgB] = PyStr(tGe2Lt3)

IsBlankText(l) == \A i \in 1..Len(l) : l[i] \in {" ", "\t", "\r", "\n"}

\* the index of the first blank line of the metadata file, 0 when it has none
FirstBlank ==
    IF \E k \in 1..Len(metadata_lines) : IsBlankText(metadata_lines[k])
    THEN CHOOSE k \in 1..Len(metadata_lines) :
             /\ IsBlankText(metadata_lines[k])
             /\ \A j \in 1..(k - 1) : ~IsBlankText(metadata_lines[j])
    ELSE 0

\* C9: when the metadata file has a blank line, no line after the first blank
\* line is read, and the name, version, summary, every key of requires and
\* every extras group come from a line before it; the record Name: foo, blank
\* line, Requires-Dist line yields the name foo and an empty requires.
C9_BlankLineTerminates ==
    /\ (FirstBlank > 0 /\ ~requires_file) =>
        /\ li <= FirstBlank + 1
        /\ li = FirstBlank + 1 => pc # "metadata"
        /\ name # <<>> =>
              \E j \in 1..(FirstBlank - 1) :
                  metadata_lines[j] = tNamePrefix \o name \o tNewline
        /\ version # <<>> =>
              \E j \in 1..(FirstBlank - 1) :
                  metadata_lines[j] = tVersionPrefix \o version \o tNewline
        /\ summary # <<>> =>
              \E j \in 1..(FirstBlank - 1) :
                  metadata_lines[j] = tSummaryPrefix \o summary \o tNewline
        /\ \A d \in DOMAIN requires :
              \E j \in 1..(FirstBlank - 1) :
                  \E c \in LineConditions :
                      metadata_lines[j] = RequiresDistText(d, c, tNone)
        /\ \A x \in DOMAIN package_extras :
              \E j \in 1..(FirstBlank - 1) :
                  /\ MatchAt(metadata_lines[j], 1, tRequiresDistPrefix)
                  /\ \E i \in 1..Len(metadata_lines[j]) :
                         MatchAt(metadata_lines[j], i, ExtraMarker)
    /\ (pc = "parsed" /\ metadata_lines = BlankScenario) =>
        /\ name = tfoo
        /\ requires = EmptyMap
        /\ package_extras = EmptyMap

\* the scan of Name: foo, blank line, Requires-Dist: pkgB is over
C9_Witness ==
    /\ pc = "parsed"
    /\ metadata_lines = BlankScenario
    /\ li = 3
    /\ name = tfoo

(***************************************************************************)
(* get_info_from_site_packages_dir: the walk over one metadata root        *)
(***************************************************************************)
MaxDirectories == 3

\* str.endswith()
EndsWith(s, suffix) == MatchAt(s, Len(s) - Len(suffix) + 1, suffix)

tDistInfo == <<".", "d", "i", "s", "t", "-", "i", "n", "f", "o">>
tEggInfo == <<".", "e", "g", "g", "-", "i", "n", "f", "o">>

\* one entry of os.scandir(directory): its name, whether it is a directory,
\* the lines of METADATA or PKG-INFO when that file is there, and the lines of
\* requires.txt when that file is there
Item(n, d, m, ml, r, rl) ==
    [name |-> n, is_dir |-> d, metadata_file |-> m, metadata |-> ml,
     requires_file |-> r, requires |-> rl]

tNameFoo == <<"N", "a", "m", "e", ":", " ", "f", "o", "o", "\n">>
tNameFooCapital == <<"N", "a", "m", "e", ":", " ", "F", "o", "o", "\n">>
tVersion1 == <<"V", "e", "r", "s", "i", "o", "n", ":", " ", "1", ".", "0", "\n">>
tVersion2 == <<"V", "e", "r", "s", "i", "o", "n", ":", " ", "2", ".", "0", "\n">>

ItemPool ==
    { Item(<<"f", "o", "o", "-", "1", ".", "0", ".", "d", "i", "s", "t", "-", "i", "n", "f", "o">>, TRUE, TRUE,
           << <<"M", "e", "t", "a", "d", "a", "t", "a", "-", "V", "e", "r", "s", "i", "o", "n", ":", " ", "2", ".", "1", "\n">>, tNameFoo, tVersion1, <<"S", "u", "m", "m", "a", "r", "y", ":", " ", "s", "\n">>,
              RequiresDistText(tpkgB, tGe2, tNone) >>,
           FALSE, <<>>),
      Item(<<"f", "o", "o", "-", "1", ".", "0", ".", "e", "g", "g", "-", "i", "n", "f", "o">>, TRUE, TRUE,
           << tNameFoo, tVersion1, <<"H", "o", "m", "e", "-", "p", "a", "g", "e", ":", " ", "h", "\n">> >>,
           TRUE,
           << RequirementText(tpkgA, tNone), tNewline, HeaderText(textra1, tNone),
              RequirementText(tpkgB, tGe2) >>),
      Item(<<"f", "o", "o", "-", "2", ".", "0", ".", "d", "i", "s", "t", "-", "i", "n", "f", "o">>, TRUE, TRUE,
           << tNameFoo, tVersion2, <<"B", "o", "g", "u", "s", "\n">>, tNewline,
              RequiresDistText(tpkgB, tNone, tNone) >>,
           FALSE, <<>>),
      Item(<<"f", "o", "o", "-", "2", ".", "0", ".", "e", "g", "g", "-", "i", "n", "f", "o">>, TRUE, TRUE,
           << tNameFoo, tVersion2 >>,
           TRUE,
           << RequirementText(tpkgA, tNone), RequirementText(tpkgA, tGe1) >>),
      Item(<<"F", "o", "o", "-", "1", ".", "0", ".", "d", "i", "s", "t", "-", "i", "n", "f", "o">>, TRUE, TRUE,
           << tNameFooCapital, tVersion1 >>,
           FALSE, <<>>),
      Item(<<"f", "o", "o", "-", "1", ".", "0", ".", "e", "g", "g", "-", "i", "n", "f", "o">>, TRUE, FALSE, <<>>, FALSE, <<>>),
      Item(<<"f", "o", "o", "-", "1", ".", "0", ".", "e", "g", "g", "-", "i", "n", "f", "o">>, FALSE, FALSE, <<>>, FALSE, <<>>),
      Item(<<"f", "o", "o">>, TRUE, FALSE, <<>>, FALSE, <<>>) }

ItemLists == UNION {[1..n -> ItemPool] : n \in 0..MaxDirectories}

InitScan ==
    /\ items \in ItemLists
    /\ pc = "items"
    /\ ii = 1
    /\ info = <<>>
    /\ deja_vu = <<>>
    /\ yielded = <<>>
    \* no file is open yet
    /\ metadata_lines = <<>>
    /\ requires_file = FALSE
    /\ requires_lines = <<>>
    /\ li = 1
    /\ ri = 1
    /\ name = <<>>
    /\ version = <<>>
    /\ summary = <<>>
    /\ requires = EmptyMap
    /\ package_extras = EmptyMap
    /\ extra = <<>>
    /\ extra_conditions = <<>>
    /\ error = ""
    \* get_packages_required_by is not running
    /\ packages = <<>>
    /\ required_by = <<>>
    /\ extras = <<>>
    /\ key = <<>>
    /\ pi = 1
    /\ ei = 1
    /\ di = 1
    /\ drained = {}
    /\ visited = {}
    \* no single requirement expression is being followed
    /\ req_line = <<>>
    /\ req_dependency = <<>>
    /\ req_conditions = <<>>
    /\ req_extras = <<>>
    \* main is not running
    /\ parameters = <<>>
    /\ oi = 0
    /\ given = <<>>
    /\ arguments = <<>>
    /\ main_packages = <<>>
    /\ latest_versions = <<>>
    /\ vulnerabilities = <<>>

AtItem == pc = "items" /\ ii <= Len(items)

\* item.is_dir() and (item.name.endswith('.dist-info') or item.name.endswith('.egg-info'))
IsInfoDirectory(item) ==
    item.is_dir /\ (EndsWith(item.name, tDistInfo) \/ EndsWith(item.name, tEggInfo))

\* the entry is not a .dist-info or .egg-info directory
SkipItem ==
    /\ AtItem
    /\ ~IsInfoDirectory(items[ii])
    /\ ii' = ii + 1
    /\ UNCHANGED <<pc, items, info, deja_vu, yielded>>
    /\ UNCHANGED <<closureVars, parseVars, lineVars, mainVars>>

\* if not os.path.isfile(metadata_file): logging.info(...)
MissingMetadata ==
    /\ AtItem
    /\ IsInfoDirectory(items[ii])
    /\ ~items[ii].metadata_file
    /\ ii' = ii + 1
    /\ UNCHANGED <<pc, items, info, deja_vu, yielded>>
    /\ UNCHANGED <<closureVars, parseVars, lineVars, mainVars>>

\* lines = file.readlines(); name = ""; version = ""; summary = ""; requires = {};
\* extras = {}; requires_file is the path of requires.txt for an .egg-info
\* directory and "" for a .dist-info directory
OpenMetadata ==
    /\ AtItem
    /\ IsInfoDirectory(items[ii])
    /\ items[ii].metadata_file
    /\ metadata_lines' = items[ii].metadata
    /\ requires_file' = (~EndsWith(items[ii].name, tDistInfo) /\ items[ii].requires_file)
    /\ requires_lines' = items[ii].requires
    /\ pc' = "metadata"
    /\ li' = 1
    /\ ri' = 1
    /\ name' = <<>>
    /\ version' = <<>>
    /\ summary' = <<>>
    /\ requires' = EmptyMap
    /\ package_extras' = EmptyMap
    /\ extra' = <<>>
    /\ extra_conditions' = <<>>
    /\ UNCHANGED error
    /\ UNCHANGED <<items, ii, info, deja_vu, yielded>>
    /\ UNCHANGED <<closureVars, lineVars, mainVars>>

\* a mutant of DejaVu: a name seen before is a duplicate whatever its version
DejaVuByName(seen, n, v) == n \in DOMAIN seen

\* name in deja_vu and version in deja_vu[name]
DejaVu(seen, n, v) == n \in DOMAIN seen /\ v \in seen[n]

\* the dictionary appended to info (its "type" is the directory_type argument,
\* the same for every entry of one walk, and is left out)
PackageRecord ==
    [directory |-> items[ii].name, name |-> name, version |-> version,
     summary |-> summary, requires |-> requires, extras |-> package_extras]

\* if not (name in deja_vu and version in deja_vu[name]): info.append(...);
\* deja_vu[name][version] = True
AppendPackage ==
    /\ pc = "parsed"
    /\ ii <= Len(items)
    /\ ~DejaVu(deja_vu, name, version)
    /\ info' = Append(info, PackageRecord)
    /\ deja_vu' = IF name \in DOMAIN deja_vu
                  THEN [deja_vu EXCEPT ![name] = @ \cup {version}]
                  ELSE deja_vu @@ (name :> {version})
    /\ yielded' = Append(yielded, PackageRecord)
    /\ pc' = "items"
    /\ ii' = ii + 1
    /\ UNCHANGED items
    /\ UNCHANGED <<closureVars, parseVars, lineVars, mainVars>>

\* the pair (name, version) was seen in an earlier directory: nothing is appended
DropDuplicate ==
    /\ pc = "parsed"
    /\ ii <= Len(items)
    /\ DejaVu(deja_vu, name, version)
    /\ yielded' = Append(yielded, PackageRecord)
    /\ pc' = "items"
    /\ ii' = ii + 1
    /\ UNCHANGED <<items, info, deja_vu>>
    /\ UNCHANGED <<closureVars, parseVars, lineVars, mainVars>>

\* "for item in items" is exhausted: return info
ScanReturn ==
    /\ pc = "items"
    /\ ii > Len(items)
    /\ pc' = "returned"
    /\ UNCHANGED <<items, ii, info, deja_vu, yielded>>
    /\ UNCHANGED <<closureVars, parseVars, lineVars, mainVars>>

NextScan ==
    \/ SkipItem
    \/ MissingMetadata
    \/ OpenMetadata
    \/ MetadataVersionLine
    \/ NameLine
    \/ VersionLine
    \/ SummaryLine
    \/ RequiresDistLine
    \/ OtherFieldLine
    \/ BlankLine
    \/ UnknownLine
    \/ MetadataEnd
    \/ RequiresFileOpened
    \/ NoRequiresFile
    \/ RequiresBlankLine
    \/ RequiresHeaderLine
    \/ RequirementLine
    \/ RequirementLineRaises
    \/ RequiresEnd
    \/ AppendPackage
    \/ DropDuplicate
    \/ ScanReturn

SpecScan == InitScan /\ [][NextScan]_vars

(***************************************************************************)
(* Properties of the walk over one metadata root                           *)
(***************************************************************************)
SamePair(a, b) == a.name = b.name /\ a.version = b.version

\* the records of a sequence that no earlier record of it matches in (name, version)
RECURSIVE FirstOfEachPair(_, _)
FirstOfEachPair(list, n) ==
    IF n = 0 THEN <<>>
    ELSE IF \E j \in 1..(n - 1) : SamePair(list[j], list[n])
         THEN FirstOfEachPair(list, n - 1)
         ELSE Append(FirstOfEachPair(list, n - 1), list[n])

\* C11: in every state of the walk, info holds no two entries of the same
\* (name, version), and info is, in scan order, exactly what the directories
\* scanned so far yielded without the yields whose (name, version) an earlier
\* directory had yielded: the first directory's entry is kept as it was
\* yielded (directory, requires and extras included), the later ones are
\* dropped, and the same name under another version is kept.
C11_Deduplicated ==
    /\ \A i, j \in 1..Len(info) : SamePair(info[i], info[j]) => i = j
    /\ info = FirstOfEachPair(yielded, Len(yielded))

\* the walk has returned after two directories yielded the same (name, version)
\* with different requires, and the same name was kept under two versions
C11_Witness ==
    /\ pc = "returned"
    /\ \E i, j \in 1..Len(yielded) :
           /\ i < j
           /\ SamePair(yielded[i], yielded[j])
           /\ yielded[i].requires # yielded[j].requires
    /\ \E i, j \in 1..Len(info) :
           info[i].name = info[j].name /\ info[i].version # info[j].version

(***************************************************************************)
(* One requirement expression, from the Requires-Dist line to the closure  *)
(***************************************************************************)
\* the names, bracketed extras requests and condition tails of the expressions
ExpressionNames == {<<"n", "a", "m", "e">>, <<"L", "i", "b">>, tpkgA, <<"s", "o", "m", "e", "-", "p", "k", "g">>}
ExpressionBrackets == {tNone, <<"[", "e", "x", "t", "r", "a", "]">>, <<"[", "e", "x", "t", "r", "a", "1", ",", "e", "x", "t", "r", "a", "2", "]">>, <<"[", "X", ",", "y", "]">>}
ExpressionTails ==
    {tNone, tGe1, <<" ", ">", "=", "1", ".", "0">>, tLt3, <<"!", "=", "2">>, <<"~", "=", "1", ".", "0">>,
     <<">", "=", "1", ".", "0", ";", " ", "e", "x", "t", "r", "a", " ", "=", "=", " ", "\"", "x", "\"">>, <<";", " ", "e", "x", "t", "r", "a", " ", "=", "=", " ", "\"", "x", "\"">>}

Expressions ==
    {n \o b \o t : <<n, b, t>> \in ExpressionNames \X ExpressionBrackets \X ExpressionTails}

InitLine ==
    /\ req_line \in Expressions
    /\ pc = "line"
    /\ req_dependency = <<>>
    /\ req_conditions = <<>>
    /\ req_extras = <<>>
    \* main is not running
    /\ parameters = <<>>
    /\ oi = 0
    /\ given = <<>>
    /\ arguments = <<>>
    /\ main_packages = <<>>
    /\ latest_versions = <<>>
    /\ vulnerabilities = <<>>
    \* the parsers are not running
    /\ metadata_lines = <<>>
    /\ requires_file = FALSE
    /\ requires_lines = <<>>
    /\ li = 1
    /\ ri = 1
    /\ name = <<>>
    /\ version = <<>>
    /\ summary = <<>>
    /\ requires = <<>>
    /\ package_extras = <<>>
    /\ extra = <<>>
    /\ extra_conditions = <<>>
    /\ error = ""
    \* get_packages_required_by is not running
    /\ packages = <<>>
    /\ required_by = <<>>
    /\ extras = <<>>
    /\ key = <<>>
    /\ pi = 1
    /\ ei = 1
    /\ di = 1
    /\ drained = {}
    /\ visited = {}
    \* no directory is being scanned
    /\ items = <<>>
    /\ ii = 1
    /\ info = <<>>
    /\ deja_vu = <<>>
    /\ yielded = <<>>

\* the metadata scan: dependency = re.sub(r"[ ;!~<=>].*", "", line) and the
\* conditions; dependency becomes a key of requires or of an extras group
ParseExpression ==
    /\ pc = "line"
    /\ req_dependency' = DependencyOf(req_line)
    /\ req_conditions' = ConditionsOf(req_line)
    /\ pc' = "filed"
    /\ UNCHANGED <<req_line, req_extras>>
    /\ UNCHANGED <<closureVars, parseVars, scanVars, mainVars>>

\* a mutant of BracketParts: the bracket is not looked into
BracketPartsNone(dependency) == <<>>

\* if '[' in dependency: extra = ...; for part in extra.split(','): the parts
BracketParts(dependency) ==
    IF HasChar(dependency, "[") THEN Split(ExtraOf(dependency), ",") ELSE <<>>

\* the closure: dependency = dependency.lower(), then the bracket is taken apart
SplitExpression ==
    /\ pc = "filed"
    /\ req_dependency' = RecordKey(Lower(req_dependency))
    /\ req_extras' = BracketParts(Lower(req_dependency))
    /\ pc' = "split"
    /\ UNCHANGED <<req_line, req_conditions>>
    /\ UNCHANGED <<closureVars, parseVars, scanVars, mainVars>>

NextLine ==
    \/ ParseExpression
    \/ SplitExpression

SpecLine == InitLine /\ [][NextLine]_vars

(***************************************************************************)
(* Properties of the handling of one requirement expression                *)
(***************************************************************************)
\* the text before the first character of the set stops, the whole text when
\* it holds none
TextBefore(s, stops) ==
    IF \E i \in 1..Len(s) : s[i] \in stops
    THEN SubSeq(s, 1, (CHOOSE i \in 1..Len(s) :
                           s[i] \in stops /\ \A j \in 1..(i - 1) : s[j] \notin stops) - 1)
    ELSE s

NameStops == {" ", ";", "!", "~", "<", "=", ">", "["}

ExpectedName(s) == TextBefore(s, NameStops)

\* the name is directly followed by a bracket
HasBracket(s) ==
    Len(ExpectedName(s)) < Len(s) /\ s[Len(ExpectedName(s)) + 1] = "["

\* the text between the bracket that follows the name and its closing bracket
InsideBracket(s) == TextBefore(DropFirst(s, Len(ExpectedName(s)) + 1), {"]"})

\* the names inside the bracket, none without a bracket
ExpectedExtras(s) ==
    IF HasBracket(s) THEN Split(InsideBracket(s), ",") ELSE <<>>

\* what follows the closing bracket, or the bare name
AfterName(s) ==
    IF HasBracket(s)
    THEN DropFirst(s, Len(ExpectedName(s)) + Len(InsideBracket(s)) + 2)
    ELSE DropFirst(s, Len(ExpectedName(s)))

\* tail is rest without separators (spaces, semicolons) at its start
IsTailOf(tail, rest) ==
    /\ Len(tail) <= Len(rest)
    /\ tail = DropFirst(rest, Len(rest) - Len(tail))
    /\ \A i \in 1..(Len(rest) - Len(tail)) : rest[i] \in {" ", ";"}
    /\ tail # <<>> => tail[1] \notin {" ", ";"}

LowerAll(list) == [i \in 1..Len(list) |-> Lower(list[i])]

\* C12, as stated: when the expression has gone through the metadata scan and
\* the closure, the name extracted is the text before the first of space, ';',
\* '!', '~', '<', '=', '>' and '[', the extras are the names inside the bracket
\* that follows the name, and the conditions start after the bracket or, without
\* a bracket, after the name.
C12_TripleAsWritten ==
    pc = "split" =>
        /\ req_dependency = ExpectedName(req_line)
        /\ req_extras = ExpectedExtras(req_line)
        /\ IsTailOf(req_conditions, AfterName(req_line))

\* C12, amended: the metadata scan keeps as dependency the text before the
\* first of space, ';', '!', '~', '<', '=', '>', the bracket included, and
\* starts the conditions after the closing bracket or, without a bracket,
\* after the name; the closure then extracts, in lowercase, the name before
\* the '[' and the names inside the bracket.
C12_TripleLowercased ==
    /\ pc \in {"filed", "split"} =>
           IsTailOf(req_conditions, AfterName(req_line))
    /\ pc = "filed" =>
           req_dependency = TextBefore(req_line, NameStops \ {"["})
    /\ pc = "split" =>
           /\ req_dependency = Lower(ExpectedName(req_line))
           /\ req_extras = LowerAll(ExpectedExtras(req_line))

\* the expression Lib[X,y]>=1.0; extra == "x" has gone through both steps
C12_Witness ==
    /\ pc = "split"
    /\ req_line = <<"L", "i", "b", "[", "X", ",", "y", "]", ">", "=", "1", ".", "0", ";", " ", "e", "x", "t", "r", "a", " ", "=", "=", " ", "\"", "x", "\"">>
    /\ req_dependency = <<"l", "i", "b">>
    /\ req_extras = <<tx, ty>>
    /\ req_conditions = <<">", "=", "1", ".", "0", ";", " ", "e", "x", "t", "r", "a", " ", "=", "=", " ", "\"", "x", "\"">>

(***************************************************************************)
(* Further properties of get_packages_required_by                          *)
(***************************************************************************)
\* C13: each pending item (target, set of extras) is expanded at most once:
\* "while extras" never picks a target together with a set of extras with
\* which that same target was drained and removed before.
C13_ExpandedOnce ==
    ~(/\ pc = "scan"
      /\ \E item \in drained :
             item.key = key /\ Range(item.value) = Range(ValueOf(extras, key)))

\* the positions (package, requirement) of the requirements that request
\* extras of the target k
RequestPositions(k) ==
    {pos \in (1..Len(packages)) \X (1..2) :
        /\ pos[2] <= Len(packages[pos[1]].requires)
        /\ HasChar(packages[pos[1]].requires[pos[2]], "[")
        /\ WithoutBracketSuffix(Lower(packages[pos[1]].requires[pos[2]])) = k}

\* the extras that the requirement at a position requests
RequestedAt(pos) == Range(Split(ExtraOf(Lower(packages[pos[1]].requires[pos[2]])), ","))

\* the position of the requirement that the first loop handles last among
\* those that request extras of k
LastRequestPosition(k) ==
    CHOOSE pos \in RequestPositions(k) :
        \A other \in RequestPositions(k) :
            other[1] < pos[1] \/ (other[1] = pos[1] /\ other[2] <= pos[2])

\* the extras with which the target k is pending or was drained
PendingOrDrained(k) ==
    UNION {Range(extras[i].value) : i \in {j \in 1..Len(extras) : extras[j].key = k}}
    \cup UNION {Range(item.value) : item \in {it \in drained : it.key = k}}

\* C14, as stated: when the first loop is over and nothing is drained yet, the
\* pending entry of every target holds only the extras of the requirement that
\* named the target last.
C14_LastWriteWins ==
    (pc = "while" /\ visited = {}) =>
        \A i \in 1..Len(extras) :
            Range(extras[i].value) = RequestedAt(LastRequestPosition(extras[i].key))

\* C14, amended: the requests for one target are merged: when the first loop
\* is over and nothing is drained yet, the pending entry of every target holds,
\* once each, the extras of all the requirements that name the target; and from
\* then on every extra that a requirement requests of a target is pending for
\* that target or was drained with it.
C14_RequestsMerged ==
    /\ (pc = "while" /\ visited = {}) =>
           \A i \in 1..Len(extras) :
               /\ NoDuplicates(extras[i].value)
               /\ Range(extras[i].value)
                      = UNION {RequestedAt(pos) : pos \in RequestPositions(extras[i].key)}
    /\ pc \in {"while", "scan", "done"} =>
           \A r \in DirectRequests : r[2] \in PendingOrDrained(r[1])

\* two packages requested different extras of one target, the target was
\* drained with the extras of both, and the function has returned
C14_Witness ==
    /\ pc = "done"
    /\ \E item \in drained :
           \E a, b \in RequestPositions(item.key) :
               /\ a[1] # b[1]
               /\ RequestedAt(a) # RequestedAt(b)
               /\ RequestedAt(a) \cup RequestedAt(b) \subseteq Range(item.value)
               /\ \E p \in PackageSet : Lower(p.name) = item.key /\ p.extras # <<>>

\* the package p declares, in its requires or in one of its extras groups that
\* a declaration requests (directly or through an activated group), the
\* dependency d (lowercased, bracket suffix removed)
DeclaresSoundly(p, d) ==
    \/ \E k \in 1..Len(p.requires) : WithoutBracketSuffix(Lower(p.requires[k])) = d
    \/ \E g \in 1..Len(p.extras) :
           /\ <<Lower(p.name), p.extras[g].key>> \in Activations(DirectRequests)
           /\ \E k \in 1..Len(p.extras[g].deps) :
                  WithoutBracketSuffix(Lower(p.extras[g].deps[k])) = d

\* C19: in every state, and so in the returned index, a name n stands in the
\* entry of a dependency d only if a package of the list whose lowercased name
\* is n declares d in its requires or in one of its own extras groups that a
\* declaration requests; a dependency that is listed only in groups that
\* nothing requests has no entry.
C19_IndexSound ==
    \A d \in DOMAIN required_by : \A n \in Range(required_by[d]) :
        \E p \in PackageSet : Lower(p.name) = n /\ DeclaresSoundly(p, d)

\* the function has returned; a group was activated and its dependency is in
\* the index, and a dependency that a package lists only in a group that
\* nothing requests has no entry
C19_Witness ==
    /\ pc = "done"
    /\ \E r \in Activations(DirectRequests) : \E c \in GroupDecls(r[1], r[2]) :
           /\ InList(Requirers(WithoutBracketSuffix(c)), r[1])
           /\ \A p \in PackageSet : \A k \in 1..Len(p.requires) :
                  WithoutBracketSuffix(Lower(p.requires[k])) # WithoutBracketSuffix(c)
    /\ \E p \in PackageSet : \E g \in 1..Len(p.extras) :
           /\ <<Lower(p.name), p.extras[g].key>> \notin Activations(DirectRequests)
           /\ \E k \in 1..Len(p.extras[g].deps) :
                  WithoutBracketSuffix(Lower(p.extras[g].deps[k])) \notin DOMAIN required_by

tqux == <<"q", "u", "x">>

\* the extras that the marker text of a Requires-Dist line names
MarkerValues(marker) ==
    {v \in {tx, ty} : \E q \in Quotes : HasText(marker, ExtraMarker \o <<q>> \o v \o <<q>>)}

\* C15: the step that reads a Requires-Dist line with an extra marker leaves
\* requires as it is and files the dependency under every extra that the
\* marker names; the step that reads a Requires-Dist line without a marker
\* leaves extras as it is and files the dependency in requires; so no such
\* step changes both mappings.
C15_OneMappingPerLine ==
    [][\A d \in {tpkgB, tqux} : \A c \in LineConditions :
           \A m \in {tNone, tMarkerX, tMarkerXorY} :
               MetadataDeclares(d, c, m)
               => /\ ~(requires' # requires /\ package_extras' # package_extras)
                  /\ IF m = tNone
                     THEN /\ package_extras' = package_extras
                          /\ d \in DOMAIN requires'
                     ELSE /\ requires' = requires
                          /\ \A x \in MarkerValues(m) :
                                 /\ x \in DOMAIN package_extras'
                                 /\ d \in DOMAIN package_extras'[x]
      ]_vars

\* a metadata file of two Requires-Dist lines for pkgB, the first with the
\* marker extra == 'x' and the second without marker, has been read
C15_Witness ==
    /\ pc = "parsed"
    /\ Len(metadata_lines) = 2
    /\ \E c \in LineConditions : metadata_lines[1] = RequiresDistText(tpkgB, c, tMarkerX)
    /\ \E c \in LineConditions : metadata_lines[2] = RequiresDistText(tpkgB, c, tNone)
    /\ DOMAIN package_extras = {tx}
    /\ DOMAIN package_extras[tx] = {tpkgB}
    /\ DOMAIN requires = {tpkgB}

\* C16: no condition stored under an extra holds an "extra == " marker: the
\* marker clauses of a line that names several extras are all stripped from
\* what is stored under each of them.
C16_MarkersStripped ==
    \A x \in DOMAIN package_extras : \A d \in DOMAIN package_extras[x] :
        ~HasText(package_extras[x][d].text, ExtraMarker)

\* the header lines of requires.txt as they are written
IsWrittenHeader(l) == \E e \in HeaderNames : \E c \in HeaderConditions : l = HeaderText(e, c)
WrittenHeaderName(l) ==
    CHOOSE e \in HeaderNames : \E c \in HeaderConditions : l = HeaderText(e, c)
WrittenHeaderCondition(l) ==
    CHOOSE c \in HeaderConditions : \E e \in HeaderNames : l = HeaderText(e, c)

\* the index of the most recent header above the line process_requires_file
\* is at, 0 when there is none
LastHeaderIndex ==
    IF \E j \in 1..(ri - 1) : IsWrittenHeader(requires_lines[j])
    THEN CHOOSE j \in 1..(ri - 1) :
             /\ IsWrittenHeader(requires_lines[j])
             /\ \A k \in (j + 1)..(ri - 1) : ~IsWrittenHeader(requires_lines[k])
    ELSE 0

CurrentHeaderName ==
    IF LastHeaderIndex = 0 THEN <<>> ELSE WrittenHeaderName(requires_lines[LastHeaderIndex])

CurrentHeaderCondition ==
    IF LastHeaderIndex = 0 THEN <<>>
    ELSE WrittenHeaderCondition(requires_lines[LastHeaderIndex])

\* C17: the step that files a requirement line files it in requires, and
\* leaves extras as it is, when no header stands above the line or the most
\* recent header has an empty name; otherwise it files it in the group of the
\* most recent header's name and leaves requires and the other groups as
\* they are.
C17_HeaderSelectsMapping ==
    [][\A d \in DeclaredDependencies : \A c \in DeclaredConditions \cup {tNone} :
           (RequiresDeclares(d, c) /\ ri' = ri + 1)
           => IF CurrentHeaderName = <<>>
              THEN /\ package_extras' = package_extras
                   /\ d \in DOMAIN requires'
              ELSE /\ requires' = requires
                   /\ DOMAIN package_extras' = DOMAIN package_extras
                   /\ CurrentHeaderName \in DOMAIN package_extras'
                   /\ d \in DOMAIN package_extras'[CurrentHeaderName]
                   /\ \A x \in DOMAIN package_extras \ {CurrentHeaderName} :
                          package_extras'[x] = package_extras[x]
      ]_vars

\* the file pkgA, [extra1], pkgB>=2.0, [], pkgC has been read: pkgB is under
\* extra1 only, and pkgC, below the empty header, is back in requires
C17_Witness ==
    /\ pc = "parsed"
    /\ requires_lines = LegacyScenario
    /\ DOMAIN requires = {tpkgA, tpkgC}
    /\ DOMAIN package_extras = {textra1}
    /\ DOMAIN package_extras[textra1] = {tpkgB}

\* the line's own condition followed by the header's, joined by ';' when
\* both are there
JoinConditions(c, h) ==
    IF c = <<>> THEN h ELSE IF h = <<>> THEN c ELSE c \o <<";">> \o h

\* the mapping a requirement line below the headers read so far belongs to
HeaderMapping(req, ex) ==
    IF CurrentHeaderName = <<>> THEN req ELSE ex[CurrentHeaderName]

\* C18: the step that files a requirement line with the condition c, h being
\* the condition of the most recent header above it (empty when that header
\* has none, whatever an earlier header had), stores c;h, or h alone when c
\* is empty, or c alone when h is empty: as the whole condition for a new
\* dependency, and after the stored condition and a ';' for a repeated one.
C18_HeaderConditionAppended ==
    [][\A d \in DeclaredDependencies : \A c \in DeclaredConditions \cup {tNone} :
           (RequiresDeclares(d, c) /\ ri' = ri + 1)
           => LET before == HeaderMapping(requires, package_extras)
                  after == HeaderMapping(requires', package_extras')
                  joined == JoinConditions(c, CurrentHeaderCondition)
              IN /\ d \in DOMAIN after
                 /\ joined # <<>> =>
                        after[d] = PyStr(IF d \in DOMAIN before
                                         THEN before[d].text \o <<";">> \o joined
                                         ELSE joined)
                 /\ (joined = <<>> /\ d \in DOMAIN before) => after[d] = before[d]
      ]_vars

\* the file [:win], pkgA, pkgB>=2.0 has been read: below the header with an
\* empty name, pkgA is stored in requires with "win" and pkgB with ">=2.0;win"
C18_Witness ==
    /\ pc = "parsed"
    /\ requires_lines = << HeaderText(tNone, twin), RequirementText(tpkgA, tNone),
                           RequirementText(tpkgB, tGe2) >>
    /\ package_extras = EmptyMap
    /\ requires = (tpkgA :> PyStr(twin)) @@ (tpkgB :> PyStr(tGe2 \o <<";">> \o twin))

(***************************************************************************)
(* main.py: _process_command_line and the filters of main                  *)
(***************************************************************************)
MaxOptions == 4

OptionNames == {"Check latest versions", "Check vulnerabilities"}
DisplayNames == {"Color", "Progress meter", "Detailed info"}
SelectionNames ==
    {"User", "System", "Outdated", "Latest", "Vulnerable", "Healthy", "Issues",
     "Not required", "Required"}

\* parameters = {...}, the defaults
DefaultParameters ==
    [Options |-> [k \in OptionNames |-> FALSE],
     Display |-> [k \in DisplayNames |-> k \in {"Color", "Progress meter"}],
     Selections |-> [k \in SelectionNames |-> FALSE]]

\* a mutant of Check: no check is switched on
CheckNothing(p, flags) == p

\* parameters['Options'][flag] = True, for every flag of flags
Check(p, flags) ==
    [p EXCEPT !.Options = [k \in OptionNames |-> (k \in flags) \/ p.Options[k]]]

\* a mutant of Select: the other selections are left as they are
SelectOnly(p, on, off) ==
    [p EXCEPT !.Selections = [k \in SelectionNames |-> (k = on) \/ p.Selections[k]]]

\* parameters['Selections'][on] = True, and False for every selection of off
Select(p, on, off) ==
    [p EXCEPT !.Selections =
         [k \in SelectionNames |->
              IF k = on THEN TRUE ELSE IF k \in off THEN FALSE ELSE p.Selections[k]]]

\* parameters['Display'][flag] = value
Display(p, flag, value) == [p EXCEPT !.Display[flag] = value]

\* the sets of selections whose last given member the history keeps
SelectionGroups ==
    {{"User", "System"}, {"Required", "Not required"}, {"Outdated", "Latest"},
     {"Vulnerable", "Healthy"}, {"Outdated", "Latest", "Issues"},
     {"Vulnerable", "Healthy", "Issues"},
     {"Outdated", "Latest", "Vulnerable", "Healthy", "Issues"}}

\* the history after an option that sets the selection
Remember(history, selection) ==
    [g \in SelectionGroups |-> IF selection \in g THEN selection ELSE history[g]]

\* the packages of the user and system site directories and of a directory
\* given on the command line (name and version only: the filters read nothing else)
tbar == <<"b", "a", "r">>
tbaz == <<"b", "a", "z">>
tv10 == <<"1", ".", "0">>
tv19 == <<"1", ".", "9">>
tv110 == <<"1", ".", "1", "0">>
tv20 == <<"2", ".", "0">>
UserPackages == << [name |-> tfoo, version |-> tv10] >>
SystemPackages == << [name |-> tbar, version |-> tv110], [name |-> tfoo, version |-> tv20] >>
SpecifiedPackages == << [name |-> tbaz, version |-> tv19], [name |-> tfoo, version |-> tv10] >>
PackageNames == {tfoo, tbar, tbaz}

\* what get_package_latest_version answers for each name: "" after an HTTP
\* error, the version of the last file of the project page otherwise
IndexPool ==
    { [n \in PackageNames |-> <<>>],
      (tfoo :> tv20) @@ (tbar :> tv19) @@ (tbaz :> tv110) }

\* the (name, version) pairs for which get_package_vulnerabilities answers a
\* non-empty list
VulnerablePool == { {}, {<<tfoo, tv10>>, <<tbar, tv110>>} }

InitMain ==
    /\ pc = "getopt"
    /\ parameters = DefaultParameters
    /\ oi = 0
    /\ given = [g \in SelectionGroups |-> ""]
    /\ arguments = <<>>
    /\ main_packages = <<>>
    /\ latest_versions = <<>>
    /\ vulnerabilities = <<>>
    \* the parsers are not running
    /\ metadata_lines = <<>>
    /\ requires_file = FALSE
    /\ requires_lines = <<>>
    /\ li = 1
    /\ ri = 1
    /\ name = <<>>
    /\ version = <<>>
    /\ summary = <<>>
    /\ requires = <<>>
    /\ package_extras = <<>>
    /\ extra = <<>>
    /\ extra_conditions = <<>>
    /\ error = ""
    \* get_packages_required_by is not running
    /\ packages = <<>>
    /\ required_by = <<>>
    /\ extras = <<>>
    /\ key = <<>>
    /\ pi = 1
    /\ ei = 1
    /\ di = 1
    /\ drained = {}
    /\ visited = {}
    \* no directory is being scanned
    /\ items = <<>>
    /\ ii = 1
    /\ info = <<>>
    /\ deja_vu = <<>>
    /\ yielded = <<>>
    \* no single requirement expression is being followed
    /\ req_line = <<>>
    /\ req_dependency = <<>>
    /\ req_conditions = <<>>
    /\ req_extras = <<>>

parseVarsButError ==
    <<metadata_lines, requires_file, requires_lines, li, ri, name, version, summary,
      requires, package_extras, extra, extra_conditions>>
notMainVars == <<closureVars, parseVars, scanVars, lineVars>>
notMainVarsButError == <<closureVars, parseVarsButError, scanVars, lineVars>>

\* getopt.getopt raises GetoptError: the help is displayed, sys.exit(1)
GetoptError ==
    /\ pc = "getopt"
    /\ pc' = "exited"
    /\ UNCHANGED mainVars
    /\ UNCHANGED notMainVars

\* getopt.getopt returns options and remaining_arguments
Getopt ==
    /\ pc = "getopt"
    /\ pc' = "options"
    /\ arguments' \in {<<>>, <<"site-packages">>}
    /\ UNCHANGED <<parameters, oi, given, main_packages, latest_versions, vulnerabilities>>
    /\ UNCHANGED notMainVars

\* "for option, _ in options" is at an option
AtOption == pc = "options" /\ oi < MaxOptions

\* the option changes parameters to p and sets the selection (none for "")
Handled(p, selection) ==
    /\ parameters' = p
    /\ given' = IF selection = "" THEN given ELSE Remember(given, selection)
    /\ oi' = oi + 1
    /\ UNCHANGED <<pc, arguments, main_packages, latest_versions, vulnerabilities>>
    /\ UNCHANGED notMainVars

\* if option == "--debug": logging.disable(logging.NOTSET)
DebugOption ==
    /\ AtOption
    /\ Handled(parameters, "")

\* elif option in ("--help", "-?"): _display_help(); sys.exit(0)
HelpOption ==
    /\ AtOption
    /\ pc' = "exited"
    /\ UNCHANGED mainVars
    /\ UNCHANGED notMainVars

\* elif option == "--version": print(...); sys.exit(0)
VersionOption ==
    /\ AtOption
    /\ pc' = "exited"
    /\ oi' = oi + 1
    /\ UNCHANGED <<parameters, given, arguments, main_packages, latest_versions,
                   vulnerabilities>>
    /\ UNCHANGED notMainVars

\* elif option in ("--no-color", "-c")
NoColorOption ==
    /\ AtOption
    /\ Handled(Display(parameters, "Color", FALSE), "")

\* elif option in ("--info", "-i")
InfoOption ==
    /\ AtOption
    /\ Handled(Display(parameters, "Detailed info", TRUE), "")

\* elif option in ("--check-latest", "-l")
CheckLatestOption ==
    /\ AtOption
    /\ Handled(Check(parameters, {"Check latest versions"}), "")

\* elif option in ("--no-progress", "-p")
NoProgressOption ==
    /\ AtOption
    /\ Handled(Display(parameters, "Progress meter", FALSE), "")

\* elif option in ("--check-vulns", "-v")
CheckVulnsOption ==
    /\ AtOption
    /\ Handled(Check(parameters, {"Check vulnerabilities"}), "")

\* elif option in ("--healthy", "--sane", "-H")
HealthyOption ==
    /\ AtOption
    /\ Handled(Select(Check(parameters, {"Check vulnerabilities"}),
                      "Healthy", {"Vulnerable", "Issues"}),
               "Healthy")

\* elif option in ("--issues", "-I")
IssuesOption ==
    /\ AtOption
    /\ Handled(Select(Check(parameters, {"Check latest versions", "Check vulnerabilities"}),
                      "Issues", {"Outdated", "Latest", "Vulnerable", "Healthy"}),
               "Issues")

\* elif option in ("--latest", "--uptodate", "-L")
LatestOption ==
    /\ AtOption
    /\ Handled(Select(Check(parameters, {"Check latest versions"}),
                      "Latest", {"Outdated", "Issues"}),
               "Latest")

\* elif option in ("--not-required", "-N")
NotRequiredOption ==
    /\ AtOption
    /\ Handled(Select(parameters, "Not required", {"Required"}), "Not required")

\* elif option in ("--outdated", "-O")
OutdatedOption ==
    /\ AtOption
    /\ Handled(Select(Check(parameters, {"Check latest versions"}),
                      "Outdated", {"Latest", "Issues"}),
               "Outdated")

\* elif option in ("--required", "-R")
RequiredOption ==
    /\ AtOption
    /\ Handled(Select(parameters, "Required", {"Not required"}), "Required")

\* elif option in ("--system", "-S")
SystemOption ==
    /\ AtOption
    /\ Handled(Select(parameters, "System", {"User"}), "System")

\* elif option in ("--user", "-U")
UserOption ==
    /\ AtOption
    /\ Handled(Select(parameters, "User", {"System"}), "User")

\* elif option in ("--vulnerable", "-V")
VulnerableOption ==
    /\ AtOption
    /\ Handled(Select(Check(parameters, {"Check vulnerabilities"}),
                      "Vulnerable", {"Healthy", "Issues"}),
               "Vulnerable")

\* "for option, _ in options" is exhausted: return remaining_arguments
OptionsEnd ==
    /\ pc = "options"
    /\ pc' = "gather"
    /\ UNCHANGED mainVars
    /\ UNCHANGED notMainVars

\* main: the packages of the given directories, or the user or system packages
GatherPackages ==
    /\ pc = "gather"
    /\ main_packages' =
           IF arguments # <<>> THEN SpecifiedPackages
           ELSE IF parameters.Selections["User"] THEN UserPackages
           ELSE IF parameters.Selections["System"] THEN SystemPackages
           ELSE UserPackages \o SystemPackages
    /\ pc' = "versions"
    /\ UNCHANGED <<parameters, oi, given, arguments, latest_versions, vulnerabilities>>
    /\ UNCHANGED notMainVars

NamesOf(list) == {list[i].name : i \in 1..Len(list)}

\* latest_versions = get_packages_latest_version(packages, ...): one entry for
\* every name of the list
FetchLatestVersions ==
    /\ pc = "versions"
    /\ parameters.Options["Check latest versions"]
    /\ \E index \in IndexPool :
           latest_versions' = [n \in NamesOf(main_packages) |-> index[n]]
    /\ pc' = "version_filter"
    /\ UNCHANGED <<parameters, oi, given, arguments, main_packages, vulnerabilities>>
    /\ UNCHANGED notMainVars

\* urllib.request.urlopen raises an error that is not an HTTPError: nothing
\* catches it
FetchLatestVersionsFails ==
    /\ pc = "versions"
    /\ parameters.Options["Check latest versions"]
    /\ main_packages # <<>>
    /\ pc' = "raised"
    /\ error' = "URLError"
    /\ UNCHANGED mainVars
    /\ UNCHANGED notMainVarsButError

\* 'Check latest versions' is off: latest_versions = {}
NoLatestVersions ==
    /\ pc = "versions"
    /\ ~parameters.Options["Check latest versions"]
    /\ pc' = "version_filter"
    /\ UNCHANGED mainVars
    /\ UNCHANGED notMainVars

Digits == <<"0", "1", "2", "3", "4", "5", "6", "7", "8", "9">>
DigitValue(c) == (CHOOSE i \in 1..Len(Digits) : Digits[i] = c) - 1

\* the number a text of digits writes
RECURSIVE NumberOf(_)
NumberOf(s) ==
    IF s = <<>> THEN 0
    ELSE NumberOf(SubSeq(s, 1, Len(s) - 1)) * Len(Digits) + DigitValue(s[Len(s)])

\* packaging.version.parse() of a release number: its components as numbers
ParseVersion(s) == [i \in 1..Len(Split(s, ".")) |-> NumberOf(Split(s, ".")[i])]

Component(v, i) == IF i <= Len(v) THEN v[i] ELSE 0

\* the order of parsed versions: by the first component that differs, a
\* missing component counting as 0
VersionLess(a, b) ==
    \E i \in 1..(Len(a) + Len(b)) :
        /\ Component(a, i) < Component(b, i)
        /\ \A j \in 1..(i - 1) : Component(a, j) = Component(b, j)

\* is_package_outdated, for a name that latest_versions holds
IsPackageOutdated(package, latest) ==
    IF latest[package.name] = <<>> THEN FALSE
    ELSE VersionLess(ParseVersion(package.version), ParseVersion(latest[package.name]))

\* latest_versions[package['name']] raises KeyError for a package of the list
LooksUpMissingName(list, latest) ==
    \E i \in 1..Len(list) : list[i].name \notin DOMAIN latest

\* is_package_vulnerable
IsPackageVulnerable(package, vulns) ==
    package.name \in DOMAIN vulns /\ package.version \in vulns[package.name]

\* the list comprehension over is_package_outdated: the filtered list, or
\* KeyError when latest_versions lacks a name of the list
OutdatedFilter(keep_outdated, next_pc) ==
    IF LooksUpMissingName(main_packages, latest_versions)
    THEN /\ pc' = "raised"
         /\ error' = "KeyError"
         /\ UNCHANGED main_packages
    ELSE /\ main_packages' =
                SelectSeq(main_packages,
                          LAMBDA x : IsPackageOutdated(x, latest_versions) = keep_outdated)
         /\ pc' = next_pc
         /\ UNCHANGED error

\* if parameters['Selections']['Outdated']: ...
FilterOutdated ==
    /\ pc = "version_filter"
    /\ parameters.Selections["Outdated"]
    /\ OutdatedFilter(TRUE, "vulns")
    /\ UNCHANGED <<parameters, oi, given, arguments, latest_versions, vulnerabilities>>
    /\ UNCHANGED notMainVarsButError

\* elif parameters['Selections']['Latest']: ...
FilterLatest ==
    /\ pc = "version_filter"
    /\ ~parameters.Selections["Outdated"]
    /\ parameters.Selections["Latest"]
    /\ OutdatedFilter(FALSE, "vulns")
    /\ UNCHANGED <<parameters, oi, given, arguments, latest_versions, vulnerabilities>>
    /\ UNCHANGED notMainVarsButError

\* neither Outdated nor Latest is selected
NoVersionFilter ==
    /\ pc = "version_filter"
    /\ ~parameters.Selections["Outdated"]
    /\ ~parameters.Selections["Latest"]
    /\ pc' = "vulns"
    /\ UNCHANGED mainVars
    /\ UNCHANGED notMainVars

\* vulnerabilities = get_packages_vulnerabilities(packages, ...): the versions
\* with known vulnerabilities, under the names that have some
FetchVulnerabilities ==
    /\ pc = "vulns"
    /\ parameters.Options["Check vulnerabilities"]
    /\ \E known \in VulnerablePool :
           vulnerabilities' =
               [n \in {x \in NamesOf(main_packages) :
                          \E i \in 1..Len(main_packages) :
                              /\ main_packages[i].name = x
                              /\ <<x, main_packages[i].version>> \in known}
                |-> {main_packages[i].version : i \in
                        {j \in 1..Len(main_packages) :
                            /\ main_packages[j].name = n
                            /\ <<n, main_packages[j].version>> \in known}}]
    /\ pc' = "vuln_filter"
    /\ UNCHANGED <<parameters, oi, given, arguments, main_packages, latest_versions>>
    /\ UNCHANGED notMainVars

\* 'Check vulnerabilities' is off: vulnerabilities = {}
NoVulnerabilities ==
    /\ pc = "vulns"
    /\ ~parameters.Options["Check vulnerabilities"]
    /\ pc' = "vuln_filter"
    /\ UNCHANGED mainVars
    /\ UNCHANGED notMainVars

\* if parameters['Selections']['Vulnerable']: ...
FilterVulnerable ==
    /\ pc = "vuln_filter"
    /\ parameters.Selections["Vulnerable"]
    /\ main_packages' =
           SelectSeq(main_packages, LAMBDA x : IsPackageVulnerable(x, vulnerabilities))
    /\ pc' = "issues_filter"
    /\ UNCHANGED <<parameters, oi, given, arguments, latest_versions, vulnerabilities>>
    /\ UNCHANGED notMainVars

\* elif parameters['Selections']['Healthy']: ...
FilterHealthy ==
    /\ pc = "vuln_filter"
    /\ ~parameters.Selections["Vulnerable"]
    /\ parameters.Selections["Healthy"]
    /\ main_packages' =
           SelectSeq(main_packages, LAMBDA x : ~IsPackageVulnerable(x, vulnerabilities))
    /\ pc' = "issues_filter"
    /\ UNCHANGED <<parameters, oi, given, arguments, latest_versions, vulnerabilities>>
    /\ UNCHANGED notMainVars

\* neither Vulnerable nor Healthy is selected
NoVulnerabilityFilter ==
    /\ pc = "vuln_filter"
    /\ ~parameters.Selections["Vulnerable"]
    /\ ~parameters.Selections["Healthy"]
    /\ pc' = "issues_filter"
    /\ UNCHANGED mainVars
    /\ UNCHANGED notMainVars

\* if parameters['Selections']['Issues']: the packages that are outdated or
\* vulnerable; is_package_outdated is evaluated first for every package
FilterIssues ==
    /\ pc = "issues_filter"
    /\ parameters.Selections["Issues"]
    /\ IF LooksUpMissingName(main_packages, latest_versions)
       THEN /\ pc' = "raised"
            /\ error' = "KeyError"
            /\ UNCHANGED main_packages
       ELSE /\ main_packages' =
                   SelectSeq(main_packages,
                             LAMBDA x : \/ IsPackageOutdated(x, latest_versions)
                                        \/ IsPackageVulnerable(x, vulnerabilities))
            /\ pc' = "filtered"
            /\ UNCHANGED error
    /\ UNCHANGED <<parameters, oi, given, arguments, latest_versions, vulnerabilities>>
    /\ UNCHANGED notMainVarsButError

\* Issues is not selected
NoIssuesFilter ==
    /\ pc = "issues_filter"
    /\ ~parameters.Selections["Issues"]
    /\ pc' = "filtered"
    /\ UNCHANGED mainVars
    /\ UNCHANGED notMainVars

NextMain ==
    \/ GetoptError
    \/ Getopt
    \/ DebugOption
    \/ HelpOption
    \/ VersionOption
    \/ NoColorOption
    \/ InfoOption
    \/ CheckLatestOption
    \/ NoProgressOption
    \/ CheckVulnsOption
    \/ HealthyOption
    \/ IssuesOption
    \/ LatestOption
    \/ NotRequiredOption
    \/ OutdatedOption
    \/ RequiredOption
    \/ SystemOption
    \/ UserOption
    \/ VulnerableOption
    \/ OptionsEnd
    \/ GatherPackages
    \/ FetchLatestVersions
    \/ FetchLatestVersionsFails
    \/ NoLatestVersions
    \/ FilterOutdated
    \/ FilterLatest
    \/ NoVersionFilter
    \/ FetchVulnerabilities
    \/ NoVulnerabilities
    \/ FilterVulnerable
    \/ FilterHealthy
    \/ NoVulnerabilityFilter
    \/ FilterIssues
    \/ NoIssuesFilter

SpecMain == InitMain /\ [][NextMain]_vars

(***************************************************************************)
(* Properties of _process_command_line                                     *)
(***************************************************************************)
Selected(selection) == parameters.Selections[selection]

\* no two selections that exclude each other are set
NotContradictory ==
    /\ ~(Selected("User") /\ Selected("System"))
    /\ ~(Selected("Required") /\ Selected("Not required"))
    /\ ~(Selected("Outdated") /\ Selected("Latest"))
    /\ ~(Selected("Vulnerable") /\ Selected("Healthy"))
    /\ \A other \in {"Outdated", "Latest", "Vulnerable", "Healthy"} :
           ~(Selected("Issues") /\ Selected(other))

\* the groups the claim names: the four pairs, and Issues with the four it excludes
ExclusionGroups ==
    {{"User", "System"}, {"Required", "Not required"}, {"Outdated", "Latest"},
     {"Vulnerable", "Healthy"},
     {"Outdated", "Latest", "Vulnerable", "Healthy", "Issues"}}

\* the selection is set exactly when it is the one an option of the group gave last
SetIffLastOf(selection, group) == Selected(selection) <=> (given[group] = selection)

\* C21 as stated: after any sequence of options the selections are never
\* contradictory, and in each group (User/System, Required/Not required,
\* Outdated/Latest, Vulnerable/Healthy, Issues with those four) the selection
\* whose option was given last is set.
C21_LastGivenIsSet ==
    /\ NotContradictory
    /\ \A g \in ExclusionGroups : given[g] # "" => Selected(given[g])

\* C21: after any sequence of options the selections are never contradictory;
\* User, System, Required and Not required are set exactly when they are the
\* last given of their pair; Outdated and Latest exactly when they are the last
\* given among --outdated, --latest and --issues; Vulnerable and Healthy exactly
\* when they are the last given among --vulnerable, --healthy and --issues;
\* Issues exactly when --issues is the last given of those five options.
C21_LastGivenUnlessCleared ==
    /\ NotContradictory
    /\ \A s \in {"User", "System"} : SetIffLastOf(s, {"User", "System"})
    /\ \A s \in {"Required", "Not required"} : SetIffLastOf(s, {"Required", "Not required"})
    /\ \A s \in {"Outdated", "Latest"} : SetIffLastOf(s, {"Outdated", "Latest", "Issues"})
    /\ \A s \in {"Vulnerable", "Healthy"} : SetIffLastOf(s, {"Vulnerable", "Healthy", "Issues"})
    /\ SetIffLastOf("Issues", {"Outdated", "Latest", "Vulnerable", "Healthy", "Issues"})

\* the options are processed, --outdated was given and --issues after it:
\* Outdated, the last given of its pair, is clear, and with --user given after
\* --system only User is set
C21_Witness ==
    /\ pc = "gather"
    /\ given[{"Outdated", "Latest"}] = "Outdated"
    /\ given[{"Outdated", "Latest", "Issues"}] = "Issues"
    /\ Selected("Issues")
    /\ ~Selected("Outdated")
    /\ given[{"User", "System"}] = "User"
    /\ Selected("User")
    /\ ~Selected("System")

(***************************************************************************)
(* Properties of the checks and of the filters of main                     *)
(***************************************************************************)
Checked(flag) == parameters.Options[flag]

\* a selection that needs a check has switched it on
SelectionsAreChecked ==
    /\ (Selected("Outdated") \/ Selected("Latest") \/ Selected("Issues"))
           => Checked("Check latest versions")
    /\ (Selected("Vulnerable") \/ Selected("Healthy") \/ Selected("Issues"))
           => Checked("Check vulnerabilities")

\* main is about to apply a filter that calls is_package_outdated
AtOutdatedLookup ==
    \/ pc = "version_filter" /\ (Selected("Outdated") \/ Selected("Latest"))
    \/ pc = "issues_filter" /\ Selected("Issues")

\* the filter finds every name of the list in latest_versions, and no lookup of
\* a name has raised
NoMissingName ==
    /\ AtOutdatedLookup => NamesOf(main_packages) \subseteq DOMAIN latest_versions
    /\ error # "KeyError"

\* C22: in every step, before and after it, a selection of Outdated, Latest or
\* Issues has 'Check latest versions' on and a selection of Vulnerable, Healthy
\* or Issues has 'Check vulnerabilities' on; no step switches a check flag off;
\* and whenever main applies an outdated, latest or issues filter,
\* latest_versions holds every package name of the list being filtered, so
\* that is_package_outdated never raises KeyError.
C22_ChecksFollowSelections ==
    [][/\ SelectionsAreChecked
       /\ SelectionsAreChecked'
       /\ NoMissingName
       /\ NoMissingName'
       /\ \A flag \in OptionNames : Checked(flag) => Checked(flag)']_vars

\* --outdated was given, latest_versions was filled for the names of the list
\* and the outdated filter has dropped a package whose name it looked up
C22_Witness ==
    /\ pc = "vulns"
    /\ Selected("Outdated")
    /\ Checked("Check latest versions")
    /\ main_packages # <<>>
    /\ NamesOf(main_packages) \subseteq DOMAIN latest_versions
    /\ NamesOf(main_packages) # DOMAIN latest_versions

====
